---------------------------- MODULE Spec2Model ----------------------------
(***************************************************************************)
(* A model of the AVG32 toolchain "adieu": the width-prefixed Val codec,   *)
(* the opcode tag dispatch, the label pass of the disassembler and the     *)
(* scene writer, the LZ77-style (de)compressor, the PACL archive, the     *)
(* condition list of the Condition opcode, the scene texts and the scene   *)
(* file with its header.                                                   *)
(*                                                                         *)
(* Each component has its own specification (SpecVal, SpecOp, SpecLabel,   *)
(* SpecLz, SpecAr, SpecCond, SpecText, SpecScene).  A specification drives *)
(* the variables of its component and leaves the variables of the other    *)
(* components idle.                                                        *)
(***************************************************************************)
EXTENDS Integers, Sequences, FiniteSets, TLC

VARIABLES
    \* ---- Val codec (parser.rs scene_value, write.rs Writeable for Val)
    vpc,      \* position of the Val pipeline
    vbytes,   \* the byte slice handed to scene_value
    vval,     \* the Val in hand (parsed, or to be written)
    vout,     \* the bytes Val::write emitted
    vsize,    \* what Val::byte_size returned
    vrest,    \* what scene_value left unconsumed
    vback,    \* the Val parsed back from vout
    \* ---- archive.rs compress / decompress
    lzpc,     \* position inside compress / decompress
    lzdata,   \* the plain bytes handed to compress
    lzin,     \* decompress: input
    lzorg,    \* decompress: orgsize
    lzres,    \* decompress: res
    lzf,      \* decompress: f, the flag byte
    lzcur,    \* decompress: position of the Cursor over input
    lzi,      \* decompress: i, the token index
    lzl,      \* iterations left in the back-reference loop `for _ in 0..l`
    lzd,      \* decompress: d
    lzflags,  \* history: number of flag bytes read so far
    lztok,    \* history: the token being, or last, processed
    \* ---- disasm.rs resolve_labels / compile_labels
    labpc,    \* position inside disassemble / assemble
    labscene, \* the AVG32Scene handed to resolve_labels
    laboffs,  \* resolve_labels: offsets, sorted
    labres,   \* the LabelResolvedScene returned by resolve_labels
    labout,   \* the AVG32Scene returned by compile_labels
    labwin,   \* the AVG32Scene handed to write
    labbytes, \* the bytes write has put into the writer
    \* ---- parser.rs opcode / write.rs Opcode::write, tag bytes only
    oppc,     \* position inside parse / write
    optag,    \* the byte the opcode dispatch reads
    opsub,    \* the byte a sub-command dispatch reads
    opvar,    \* the Opcode variant parsed
    opsubvar, \* the sub-command variant parsed ("none": no sub-command)
    opread,   \* history: the tag bytes the parse consumed
    opout,    \* the tag bytes written
    opback,   \* the variant, and sub-command variant, parsed back from opout
    \* ---- archive.rs Archive: new / add_entry / finalize / parse / write
    arpc,     \* position inside the archive pipelines
    arsrc,    \* where the Archive came from: "new", "bytes", "struct", "entry"
    arfin,    \* history: finalize has run on the Archive
    arbytes,  \* the bytes handed to parser::archive
    ar,       \* the Archive
    arentry,  \* the ArchiveEntry written alone
    arback,   \* the ArchiveEntry parsed back from what was written
    arout,    \* the sink: the bytes emitted by write so far
    argiven,  \* history: the filename and data of every add_entry call
    arpre,    \* history: the archive as the last finalize call found it
    \* ---- parser.rs scene_conditions / write.rs Writeable for Condition
    cdpc,     \* position inside scene_conditions / write
    cdinput,  \* the bytes handed to scene_conditions
    cdn,      \* the number of pieces cdinput is made of
    cdinp,    \* scene_conditions: inp, the bytes not yet consumed
    cddepth,  \* scene_conditions: depth
    cdconds,  \* scene_conditions: conditions
    cdtag,    \* history: the last tag byte read (-1: none)
    cdattr,   \* history: the last Ret attribute byte read (-1: none)
    cdwide,   \* history: some Val consumed was wider than its value needs
    cdout,    \* the bytes written for the returned conditions
    \* ---- parser.rs scene_text / write.rs Writeable for SceneText
    txpc,     \* position inside scene_text / write
    txin,     \* the bytes handed to scene_text
    txval,    \* the SceneText parsed, or handed to write
    txrest,   \* the bytes scene_text left unconsumed
    txout,    \* the bytes written
    txsize,   \* the byte_size of what was written
    txback,   \* the SceneText parsed back from txout
    txentries,\* the entries of the SceneFormattedText parsed, or handed to write
    txn,      \* the number of pieces txin was put together from
    txcond,   \* the bytes behind the 0x28 of the last Condition entry parsed
    \* ---- parser.rs avg32_scene / write.rs Writeable for AVG32Scene
    scpc,     \* position inside write / avg32_scene
    scscene,  \* the scene handed to write
    scbytes,  \* the bytes written
    scsize,   \* the byte_size of the scene
    scback    \* the scene parsed from scbytes

valVars == <<vpc, vbytes, vval, vout, vsize, vrest, vback>>

lzVars == <<lzpc, lzdata, lzin, lzorg, lzres, lzf, lzcur, lzi, lzl, lzd,
            lzflags, lztok>>

labVars == <<labpc, labscene, laboffs, labres, labout, labwin, labbytes>>

opVars == <<oppc, optag, opsub, opvar, opsubvar, opread, opout, opback>>

arVars ==
    <<arpc, arsrc, arfin, arbytes, ar, arentry, arback, arout, argiven, arpre>>

cdVars ==
    <<cdpc, cdinput, cdn, cdinp, cddepth, cdconds, cdtag, cdattr, cdwide, cdout>>

txVars ==
    <<txpc, txin, txval, txrest, txout, txsize, txback, txentries, txn, txcond>>

scVars == <<scpc, scscene, scbytes, scsize, scback>>

vars == <<valVars, lzVars, labVars, opVars, arVars, cdVars, txVars, scVars>>

(***************************************************************************)
(* Bytes and words                                                         *)
(***************************************************************************)
\* x << 8 and x << 4 on a u32: the bits shifted past bit 31 are dropped
Shl8(x) == (x % 16777216) * 256

Shl4(x) == (x % 268435456) * 16

Min(a, b) == IF a <= b THEN a ELSE b

NoVal == [value |-> 0, kind |-> "None"]

\* every sequence over S of length at most n
RECURSIVE SeqsUpTo(_, _)
SeqsUpTo(S, n) ==
    IF n = 0 THEN {<<>>}
    ELSE LET shorter == SeqsUpTo(S, n - 1)
         IN  shorter \cup {Append(t, b) : t \in shorter, b \in S}

\* Writeable for u32::write: little-endian
WriteU32(n) ==
    <<n % 256, (n \div 256) % 256, (n \div 65536) % 256,
      (n \div 16777216) % 256>>

(***************************************************************************)
(* Val: parser.rs scene_value                                              *)
(***************************************************************************)

\* the accumulator `ret` of scene_value after the loop body has run for
\* index i (the loop runs i = len-2 down to 0; input[i+1] is 0-based)
RECURSIVE SceneValueAcc(_, _, _)
SceneValueAcc(input, len, i) ==
    IF i >= len - 1 THEN 0
    ELSE Shl8(SceneValueAcc(input, len, i + 1)) + input[i + 2]

\* scene_value: "panic" covers input[0] on an empty slice, the usize
\* underflow of len-1 for a width field of 0 (debug: overflow panic,
\* release: wraps and indexes out of range) and every index past the slice
scene_value(input) ==
    IF Len(input) = 0 THEN [st |-> "panic", val |-> NoVal, rest |-> <<>>]
    ELSE
      LET num  == input[1]
          len  == (num \div 16) % 8
          kind == IF num \div 128 = 1 THEN "Var" ELSE "Const"
      IN  IF len = 0 \/ len > Len(input)
          THEN [st |-> "panic", val |-> NoVal, rest |-> <<>>]
          ELSE [st   |-> "ok",
                val  |-> [value |-> Shl4(SceneValueAcc(input, len, 0))
                                      + (num % 16),
                          kind  |-> kind],
                rest |-> SubSeq(input, len + 1, Len(input))]

(***************************************************************************)
(* Val: write.rs Writeable for Val                                         *)
(***************************************************************************)

\* a plausible slip: the first boundary taken one too high
ValByteSizeOffByOne(v) ==
    IF v.value <= 16 THEN 0
    ELSE IF v.value <= 4095 THEN 1
    ELSE IF v.value <= 1048575 THEN 2
    ELSE IF v.value <= 268435455 THEN 3
    ELSE 4

\* Val::byte_size
ValByteSize(v) ==
    IF v.value <= 15 THEN 0
    ELSE IF v.value <= 4095 THEN 1
    ELSE IF v.value <= 1048575 THEN 2
    ELSE IF v.value <= 268435455 THEN 3
    ELSE 4

\* the bytes pushed by the loop of Val::write: n bytes of x, low byte first
RECURSIVE ValTailBytes(_, _)
ValTailBytes(x, n) ==
    IF n = 0 THEN <<>>
    ELSE <<x % 256>> \o ValTailBytes(x \div 256, n - 1)

\* a plausible slip: the tail emitted high byte first
ValWriteBigEndian(v) ==
    LET len == ValByteSize(v)
        lb  == (((len + 1) * 16) % 256) + (v.value % 16)
                 + (IF v.kind = "Var" THEN 128 ELSE 0)
        t   == ValTailBytes(v.value \div 16, len)
    IN  <<lb>> \o [k \in 1..len |-> t[len + 1 - k]]

\* a plausible slip: the variable flag is never set
ValWriteNoFlag(v) ==
    LET len == ValByteSize(v)
        lb  == (((len + 1) * 16) % 256) + (v.value % 16)
    IN  <<lb>> \o ValTailBytes(v.value \div 16, len)

\* Val::write
ValWrite(v) ==
    LET len == ValByteSize(v)
        lb  == (((len + 1) * 16) % 256) + (v.value % 16)
                 + (IF v.kind = "Var" THEN 128 ELSE 0)
    IN  <<lb>> \o ValTailBytes(v.value \div 16, len)


(***************************************************************************)
(* Idle components and frames                                              *)
(***************************************************************************)
NoTok == [kind |-> "none", i |-> 0, f |-> 0, w |-> 0, start |-> 0]

IdleLz ==
    /\ lzpc = "idle"
    /\ lzdata = <<>>
    /\ lzin = <<>>
    /\ lzorg = 0
    /\ lzres = <<>>
    /\ lzf = 0
    /\ lzcur = 0
    /\ lzi = 0
    /\ lzl = 0
    /\ lzd = 0
    /\ lzflags = 0
    /\ lztok = NoTok

NoScene == [header |-> "none", opcodes |-> <<>>]

NoResolved == [header |-> "none", labels |-> <<>>]

IdleLab ==
    /\ labpc = "idle"
    /\ labscene = NoScene
    /\ laboffs = <<>>
    /\ labres = NoResolved
    /\ labout = NoScene
    /\ labwin = NoScene
    /\ labbytes = <<>>

IdleOp ==
    /\ oppc = "idle"
    /\ optag = 0
    /\ opsub = 0
    /\ opvar = "none"
    /\ opsubvar = "none"
    /\ opread = <<>>
    /\ opout = <<>>
    /\ opback = <<"none", "none">>

NoArchive == [unk1 |-> <<>>, unk2 |-> <<>>, entries |-> <<>>, data |-> <<>>]

NoEntry ==
    [filename |-> <<>>, offset |-> 0, arcsize |-> 0, filesize |-> 0, unk1 |-> 0]

IdleAr ==
    /\ arpc = "idle"
    /\ arsrc = "none"
    /\ arfin = FALSE
    /\ arbytes = <<>>
    /\ ar = NoArchive
    /\ arentry = NoEntry
    /\ arback = NoEntry
    /\ arout = <<>>
    /\ argiven = <<>>
    /\ arpre = NoArchive

\* each pipeline leaves the other components alone
IdleCond ==
    /\ cdpc = "idle"
    /\ cdinput = <<>>
    /\ cdn = 0
    /\ cdinp = <<>>
    /\ cddepth = 0
    /\ cdconds = <<>>
    /\ cdtag = -1
    /\ cdattr = -1
    /\ cdwide = FALSE
    /\ cdout = <<>>

IdleText ==
    /\ txpc = "idle"
    /\ txin = <<>>
    /\ txval = [t |-> "none", val |-> [value |-> 0, kind |-> "None"], str |-> <<>>]
    /\ txrest = <<>>
    /\ txout = <<>>
    /\ txsize = 0
    /\ txback = txval
    /\ txentries = <<>>
    /\ txn = 0
    /\ txcond = <<>>

IdleScene ==
    /\ scpc = "idle"
    /\ scscene = NoScene
    /\ scbytes = <<>>
    /\ scsize = 0
    /\ scback = NoScene

ValFrame ==
    UNCHANGED <<lzVars, labVars, opVars, arVars, cdVars, txVars, scVars>>

LzFrame ==
    UNCHANGED <<valVars, labVars, opVars, arVars, cdVars, txVars, scVars>>

(***************************************************************************)
(* Val: the two pipelines.  "bytes" -> scene_value -> Val::write, and      *)
(* "val" -> Val::write -> scene_value.                                     *)
(***************************************************************************)
MaxTail == 4

ValKinds == {"Const", "Var"}

\* first bytes: flag bit, width field 0..4, low nibble
ValFirstBytes ==
    {k * 128 + w * 16 + n : k \in {0, 1}, w \in 0..4, n \in {0, 1, 8, 15}}

ValTailSamples == {0, 128, 255}

\* the slices of tests::test_roundtrip_value and tests::parse_value
ValTestSlices ==
    { <<16>>, <<31>>, <<145>>, <<32, 128>>, <<63, 128, 64>>, <<52, 128, 64>>,
      <<63, 255, 255>>, <<72, 159, 125, 10>>, <<79, 255, 255, 255>> }

\* slices with a width field of 5 (four tail bytes)
ValWideSlices ==
    { <<80, 0, 0, 0, 1>>, <<95, 255, 255, 255, 7>>, <<208, 0, 0, 0, 0>>,
      <<80, 0, 0>> }

ValSlices ==
    {<<b>> \o t : b \in ValFirstBytes, t \in SeqsUpTo(ValTailSamples, MaxTail)}
        \cup ValTestSlices \cup ValWideSlices \cup {<<>>}

\* values at and around every width boundary, and those of the tests
ValValues ==
    { 0, 1, 15, 16, 17, 2048, 4095, 4096, 264196, 1048575, 1048576,
      10999288, 268435455, 268435456, 2147483647 }

ValSamples == [value : ValValues, kind : ValKinds]

ValStart ==
    /\ vout = <<>>
    /\ vsize = 0
    /\ vrest = <<>>
    /\ vback = NoVal
    /\ \/ vpc = "bytes" /\ vbytes \in ValSlices /\ vval = NoVal
       \/ vpc = "val" /\ vbytes = <<>> /\ vval \in ValSamples

IdleVal ==
    /\ vpc = "idle"
    /\ vbytes = <<>>
    /\ vval = NoVal
    /\ vout = <<>>
    /\ vsize = 0
    /\ vrest = <<>>
    /\ vback = NoVal

\* scene_value applied to the slice
ParseValue ==
    /\ vpc = "bytes"
    /\ LET r == scene_value(vbytes)
       IN  /\ vpc' = IF r.st = "ok" THEN "parsed" ELSE "panic"
           /\ vval' = r.val
           /\ vrest' = r.rest
    /\ UNCHANGED <<vbytes, vout, vsize, vback>>
    /\ ValFrame

\* Val::write (and Val::byte_size) applied to the parsed Val
WriteParsed ==
    /\ vpc = "parsed"
    /\ vpc' = "written"
    /\ vout' = ValWrite(vval)
    /\ vsize' = ValByteSize(vval)
    /\ UNCHANGED <<vbytes, vval, vrest, vback>>
    /\ ValFrame

\* Val::write (and Val::byte_size) applied to a Val built by the caller
WriteValue ==
    /\ vpc = "val"
    /\ vpc' = "encoded"
    /\ vout' = ValWrite(vval)
    /\ vsize' = ValByteSize(vval)
    /\ UNCHANGED <<vbytes, vval, vrest, vback>>
    /\ ValFrame

\* scene_value applied to what Val::write emitted
ParseWritten ==
    /\ vpc = "encoded"
    /\ LET r == scene_value(vout)
       IN  /\ vpc' = IF r.st = "ok" THEN "decoded" ELSE "panic"
           /\ vback' = r.val
           /\ vrest' = r.rest
    /\ UNCHANGED <<vbytes, vval, vout, vsize>>
    /\ ValFrame

InitVal ==
    ValStart /\ IdleLz /\ IdleLab /\ IdleOp /\ IdleAr /\ IdleCond /\ IdleText
        /\ IdleScene

NextVal == ParseValue \/ WriteParsed \/ WriteValue \/ ParseWritten

SpecVal == InitVal /\ [][NextVal]_vars

(***************************************************************************)
(* Val: properties                                                         *)
(***************************************************************************)

\* the width table of the data model: the number of bytes a value needs
CanonicalWidth(value) ==
    IF value <= 15 THEN 1
    ELSE IF value <= 4095 THEN 2
    ELSE IF value <= 1048575 THEN 3
    ELSE IF value <= 268435455 THEN 4
    ELSE 5

\* the width field (bits 4..6) of a first byte
WidthField(b) == (b \div 16) % 8

\* the bytes of vbytes that scene_value consumed
ValConsumed == SubSeq(vbytes, 1, Len(vbytes) - Len(vrest))

\* C4 as stated: for every slice that scene_value parses with a width field
\* of 1..4, Val::write of the parsed Val emits exactly the consumed bytes.
C4_WriteAfterParseAnyWidth ==
    (vpc = "written" /\ WidthField(vbytes[1]) \in 1..4)
        => vout = ValConsumed

\* C4 (amended): for every slice that scene_value parses with a width field
\* of 1..4 that is the minimum width of the parsed value, Val::write of the
\* parsed Val emits exactly the bytes the parse consumed.
C4_WriteAfterParseCanonical ==
    (/\ vpc = "written"
     /\ WidthField(vbytes[1]) \in 1..4
     /\ WidthField(vbytes[1]) = CanonicalWidth(vval.value))
        => vout = ValConsumed

C4_Witness ==
    /\ vpc = "written"
    /\ WidthField(vbytes[1]) = 4
    /\ CanonicalWidth(vval.value) = 4
    /\ vval.kind = "Var"
    /\ Len(vrest) > 0
    /\ vout = ValConsumed

\* C5: for every Val with value 0..=0xFFFFFFF, scene_value applied to the
\* bytes of Val::write returns that Val and consumes exactly those bytes;
\* bit 0x80 of the first written byte is set exactly when the kind is Var,
\* and (1, Var) is written as the single byte 0x91.
C5_ParseAfterWrite ==
    (vpc \in {"encoded", "decoded", "panic"} /\ vval.kind \in ValKinds
        /\ vval.value <= 268435455)
        => /\ vpc # "panic"
           /\ (vout[1] >= 128) <=> (vval.kind = "Var")
           /\ (vval = [value |-> 1, kind |-> "Var"]) => (vout = <<145>>)
           /\ (vpc = "decoded") => (vback = vval /\ vrest = <<>>)

C5_Witness ==
    /\ vpc = "decoded"
    /\ vval = [value |-> 268435455, kind |-> "Var"]
    /\ vback = vval
    /\ vout = <<207, 255, 255, 255>>

\* C6: Val::write emits the minimum width fixed by the value alone (1 byte
\* up to 0x0F, 2 up to 0xFFF, 3 up to 0xFFFFF, 4 up to 0xFFFFFFF) and the
\* width field of the first byte equals the number of bytes emitted.
C6_MinimumWidth ==
    (vpc \in {"encoded", "written"} /\ vval.value <= 268435455)
        => /\ Len(vout) = CanonicalWidth(vval.value)
           /\ WidthField(vout[1]) = Len(vout)

C6_Witness ==
    /\ vpc = "encoded"
    /\ vval.value = 1048576
    /\ Len(vout) = 4
    /\ WidthField(vout[1]) = 4

\* C7: Val::byte_size equals the number of bytes Val::write emits.
C7_ValSizeLaw ==
    (vpc \in {"encoded", "written"}) => vsize = Len(vout)

(***************************************************************************)
(* archive.rs: compress and decompress                                     *)
(***************************************************************************)
\* compress: 0xFF before every 8th byte, then the byte (k is the 0-based
\* index of the next byte to emit)
RECURSIVE CompressFrom(_, _)
CompressFrom(input, k) ==
    IF k >= Len(input) THEN <<>>
    ELSE (IF k % 8 = 0 THEN <<255>> ELSE <<>>)
            \o <<input[k + 1]>> \o CompressFrom(input, k + 1)

\* a plausible slip: the flag byte emitted after the first byte of a group
RECURSIVE CompressFlagLate(_, _)
CompressFlagLate(input, k) ==
    IF k >= Len(input) THEN <<>>
    ELSE <<input[k + 1]>> \o (IF k % 8 = 0 THEN <<255>> ELSE <<>>)
            \o CompressFlagLate(input, k + 1)

compressLate(input) == CompressFlagLate(input, 0)

compress(input) == CompressFrom(input, 0)

\* a plausible slip: the flag byte refreshed for every token
NeedFlagAlways(i) == TRUE

\* `cnt == 0`: the token needs a fresh flag byte
NeedFlag(i) == i % 8 = 0

RECURSIVE Pow2(_)
Pow2(n) == IF n = 0 THEN 1 ELSE 2 * Pow2(n - 1)

\* a plausible slip: the mask walks up from bit 0
FlagBitLowFirst(f, cnt) == (f \div Pow2(cnt)) % 2 = 1

\* `f & (0x80 >> cnt) != 0`
FlagBit(f, cnt) == (f \div (128 \div Pow2(cnt))) % 2 = 1

\* a plausible slip: the source is one byte further back
CopySourceOff(len, d) == len - d - 1

\* `res[res.len()-d-1]`, as a 1-based position in lzres (0: out of range)
CopySource(len, d) == len - d

\* a plausible slip: the run is not cut at orgsize
RunEndsUnclamped(len, org, left) == left = 0

\* the back-reference loop ends: `res.len() >= orgsize` or 0..l is used up
RunEnds(len, org, left) == len >= org \/ left = 0

\* decompress is entered: res, f, cur and i as at archive.rs:238-241
DecompressEntry(input, org) ==
    /\ lzin' = input
    /\ lzorg' = org
    /\ lzres' = <<>>
    /\ lzf' = 0
    /\ lzcur' = 0
    /\ lzi' = 0
    /\ lzl' = 0
    /\ lzd' = 0
    /\ lzflags' = 0
    /\ lztok' = NoTok

\* Archive::add_entry compresses, ArchiveData::decompress reads back with
\* orgsize = data.len()
Compress ==
    /\ lzpc = "data"
    /\ lzpc' = "loop"
    /\ DecompressEntry(compress(lzdata), Len(lzdata))
    /\ UNCHANGED lzdata
    /\ LzFrame

\* one pass of `while res.len() < orgsize` up to the literal push or to the
\* entry of the back-reference loop; a read past the input is UnexpectedEof
Token ==
    /\ lzpc = "loop"
    /\ Len(lzres) < lzorg
    /\ LET cnt   == lzi % 8
           fresh == NeedFlag(lzi)
           feof  == fresh /\ lzcur >= Len(lzin)
           f     == IF fresh /\ ~feof THEN lzin[lzcur + 1] ELSE lzf
           cur   == IF fresh THEN lzcur + 1 ELSE lzcur
           lit   == FlagBit(f, cnt)
       IN  IF feof
           THEN /\ lzpc' = "eof"
                /\ UNCHANGED <<lzres, lzf, lzcur, lzi, lzl, lzd, lzflags, lztok>>
           ELSE /\ lzf' = f
                /\ lzflags' = IF fresh THEN lzflags + 1 ELSE lzflags
                /\ IF lit
                   THEN IF cur >= Len(lzin)
                        THEN /\ lzpc' = "eof"
                             /\ lzcur' = cur
                             /\ UNCHANGED <<lzres, lzi, lzl, lzd, lztok>>
                        ELSE /\ lzpc' = "loop"
                             /\ lzres' = Append(lzres, lzin[cur + 1])
                             /\ lzcur' = cur + 1
                             /\ lzi' = lzi + 1
                             /\ lztok' = [kind |-> "lit", i |-> lzi, f |-> f,
                                          w |-> lzin[cur + 1],
                                          start |-> Len(lzres)]
                             /\ UNCHANGED <<lzl, lzd>>
                   ELSE IF cur + 1 >= Len(lzin)
                        THEN /\ lzpc' = "eof"
                             /\ lzcur' = cur
                             /\ UNCHANGED <<lzres, lzi, lzl, lzd, lztok>>
                        ELSE LET w == lzin[cur + 1] + 256 * lzin[cur + 2]
                             IN  /\ lzpc' = "copy"
                                 /\ lzcur' = cur + 2
                                 /\ lzl' = (w % 16) + 2
                                 /\ lzd' = w \div 16
                                 /\ lztok' = [kind |-> "ref", i |-> lzi,
                                              f |-> f, w |-> w,
                                              start |-> Len(lzres)]
                                 /\ UNCHANGED <<lzres, lzi>>
    /\ UNCHANGED <<lzdata, lzin, lzorg>>
    /\ LzFrame

\* one pass of `for _ in 0..l`: an index before the start of res panics
\* (debug: subtraction overflow; release: index out of bounds)
CopyByte ==
    /\ lzpc = "copy"
    /\ LET src == CopySource(Len(lzres), lzd)
       IN  IF src < 1 \/ src > Len(lzres)
           THEN /\ lzpc' = "panic"
                /\ UNCHANGED <<lzres, lzi, lzl>>
           ELSE /\ lzres' = Append(lzres, lzres[src])
                /\ lzl' = lzl - 1
                /\ IF RunEnds(Len(lzres) + 1, lzorg, lzl - 1)
                   THEN lzpc' = "loop" /\ lzi' = lzi + 1
                   ELSE lzpc' = "copy" /\ lzi' = lzi
    /\ UNCHANGED <<lzdata, lzin, lzorg, lzf, lzcur, lzd, lzflags, lztok>>
    /\ LzFrame

\* the loop is left: the size check of archive.rs:269 and the return
Finish ==
    /\ lzpc = "loop"
    /\ ~(Len(lzres) < lzorg)
    /\ lzpc' = IF Len(lzres) # lzorg THEN "mismatch" ELSE "ok"
    /\ UNCHANGED <<lzdata, lzin, lzorg, lzres, lzf, lzcur, lzi, lzl, lzd,
                   lzflags, lztok>>
    /\ LzFrame

MaxIn == 5

MaxOrg == 6

MaxData == 9

\* flag bytes, literals and the two halves of back-reference words
LzBytes == {0, 1, 16, 128, 255}

LzDataBytes == {0, 255}

\* the input and the expected output of tests::test_decompress
S2Input == <<252, 84, 80, 67, 51, 50, 0, 15, 0, 15, 0, 133, 1, 31, 1, 15>>

S2Expected == <<84, 80, 67, 51, 50>> \o [k \in 1..35 |-> 0]

LzStart ==
    /\ lzres = <<>>
    /\ lzf = 0
    /\ lzcur = 0
    /\ lzi = 0
    /\ lzl = 0
    /\ lzd = 0
    /\ lzflags = 0
    /\ lztok = NoTok
    /\ \/ /\ lzpc = "data"
          /\ lzdata \in SeqsUpTo(LzDataBytes, MaxData)
          /\ lzin = <<>>
          /\ lzorg = 0
       \/ /\ lzpc = "loop"
          /\ lzdata = <<>>
          /\ lzin \in SeqsUpTo(LzBytes, MaxIn)
          /\ lzorg \in 0..MaxOrg
       \/ /\ lzpc = "loop"
          /\ lzdata = <<>>
          /\ lzin = S2Input
          /\ lzorg = Len(S2Expected)

InitLz ==
    LzStart /\ IdleVal /\ IdleLab /\ IdleOp /\ IdleAr /\ IdleCond /\ IdleText
        /\ IdleScene

NextLz == Compress \/ Token \/ CopyByte \/ Finish

SpecLz == InitLz /\ [][NextLz]_vars

(***************************************************************************)
(* compress / decompress: properties                                       *)
(***************************************************************************)
LzFailed == lzpc \in {"eof", "panic", "mismatch"}

\* C8: for every byte sequence x, the empty one and lengths that are not
\* multiples of 8 included, decompress(compress(x), len(x)) never fails, its
\* output is at every step a prefix of x, and it returns exactly x.
C8_StubRoundTrip ==
    (lzpc # "data" /\ lzin = compress(lzdata) /\ lzorg = Len(lzdata)) =>
        /\ ~LzFailed
        /\ Len(lzres) <= Len(lzdata)
        /\ lzres = SubSeq(lzdata, 1, Len(lzres))
        /\ lzpc = "ok" => lzres = lzdata

C8_Witness ==
    /\ lzpc = "ok"
    /\ Len(lzdata) = 9
    /\ lzin = compress(lzdata)
    /\ lzres = lzdata
    /\ lzflags = 2

\* C9: a returned result has length exactly orgsize, the output is never
\* longer than orgsize at any step (a back-reference run is cut at orgsize),
\* and the size check after the loop never fails.
C9_LengthIsOrgsize ==
    /\ Len(lzres) <= lzorg
    /\ lzpc = "ok" => Len(lzres) = lzorg
    /\ lzpc # "mismatch"

\* a run that was cut short by orgsize, then a successful return
C9_Witness ==
    /\ lzpc = "ok"
    /\ lztok.kind = "ref"
    /\ Len(lzres) = lzorg
    /\ Len(lzres) - lztok.start < (lztok.w % 16) + 2

InIteration == lzpc \in {"loop", "copy"} /\ Len(lzres) < lzorg

\* C27: decompress terminates: every step of a loop iteration returns an
\* error or makes the output longer (the step that reads a back-reference
\* word is followed by its first copy), so the iterations completed never
\* outnumber the output bytes; a read past the end of the input returns the
\* end-of-input error with the output still short of orgsize; with orgsize 0
\* the empty output is returned and nothing is read.
C27_DecompressTerminates ==
    /\ [][InIteration =>
            \/ lzpc' = "eof"
            \/ Len(lzres') > Len(lzres)
            \/ lzpc = "loop" /\ lzpc' = "copy"]_vars
    /\ [](lzpc \in {"loop", "copy", "ok", "eof", "panic"} =>
            /\ lzi <= Len(lzres)
            /\ lzi <= lzorg
            /\ lzpc = "eof" => Len(lzres) < lzorg /\ lzcur + 1 >= Len(lzin)
            /\ lzorg = 0 => lzcur = 0 /\ lzres = <<>> /\ lzpc \in {"loop", "ok"})

\* C28: a back-reference whose distance w >> 4 is at least the length of the
\* output at that point, the first token included, ends decompress with an
\* error value: no byte outside the output produced so far is read and
\* nothing crashes.
C28_BackReferenceInRange ==
    (/\ lztok.kind = "ref"
     /\ lztok.w \div 16 >= lztok.start
     /\ lzpc # "copy") => lzpc \in {"eof", "mismatch"}

(***************************************************************************)
(* disasm.rs: resolve_labels and compile_labels                            *)
(***************************************************************************)
\* LabelKind, in the order of the enum (the derived Ord)
LabelKinds == <<"Condition", "Call", "Jump", "TableCall", "TableJump">>

KindIndex(kind) == CHOOSE i \in 1..Len(LabelKinds) : LabelKinds[i] = kind

\* Pos::Offset(n) and Pos::Label(name); names are sequences of characters
PosOffset(n) == [t |-> "Offset", n |-> n, name |-> <<>>]

PosLabel(name) == [t |-> "Label", n |-> 0, name |-> name]

\* the outcome of unreachable!() / unwrap() on None inside the conversions
PosPanic == [t |-> "Panic", n |-> 0, name |-> <<>>]

\* Writeable for Pos: mem::size_of::<u32>()
PosByteSize == 4

\* the opcodes the label pass looks into, and one it passes over
OpWaitMouse == [op |-> "WaitMouse", conds |-> <<>>, val |-> NoVal, poss |-> <<>>]

OpCondition(conds, pos) ==
    [op |-> "Condition", conds |-> conds, val |-> NoVal, poss |-> <<pos>>]

OpCall(pos) == [op |-> "Call", conds |-> <<>>, val |-> NoVal, poss |-> <<pos>>]

OpJump(pos) == [op |-> "Jump", conds |-> <<>>, val |-> NoVal, poss |-> <<pos>>]

OpTableCall(val, poss) ==
    [op |-> "TableCall", conds |-> <<>>, val |-> val, poss |-> poss]

OpTableJump(val, poss) ==
    [op |-> "TableJump", conds |-> <<>>, val |-> val, poss |-> poss]

\* Writeable for Condition::byte_size, for IncDepth, DecDepth, And, Or
ConditionByteSize(c) == 1

\* Writeable for Vec<T>::byte_size over a Vec<Condition>
RECURSIVE CondsByteSize(_)
CondsByteSize(conds) ==
    IF conds = <<>> THEN 0
    ELSE ConditionByteSize(Head(conds)) + CondsByteSize(Tail(conds))

\* Writeable for Opcode::byte_size
OpcodeByteSize(o) ==
    CASE o.op = "WaitMouse" -> 1
      [] o.op = "Condition" -> 1 + CondsByteSize(o.conds) + PosByteSize
      [] o.op \in {"Call", "Jump"} -> 1 + PosByteSize
      [] o.op \in {"TableCall", "TableJump"} ->
            1 + 1 + ValByteSize(o.val) + Len(o.poss) * PosByteSize

extract_label(o) ==
    IF o.op \in {"Condition", "Call", "Jump", "TableCall", "TableJump"}
    THEN [k \in 1..Len(o.poss) |-> [kind |-> o.op, pos |-> o.poss[k]]]
    ELSE <<>>

RECURSIVE extract_labels(_)
extract_labels(opcodes) ==
    IF opcodes = <<>> THEN <<>>
    ELSE extract_label(Head(opcodes)) \o extract_labels(Tail(opcodes))

\* the derived Ord of Pos: Offset before Label, offsets by number (the label
\* names of the inputs are all equal)
PosLess(a, b) ==
    \/ a.t = "Offset" /\ b.t = "Label"
    \/ a.t = "Offset" /\ b.t = "Offset" /\ a.n < b.n

\* the derived Ord of LabelPos: kind, then pos
LabelPosLess(a, b) ==
    \/ KindIndex(a.kind) < KindIndex(b.kind)
    \/ a.kind = b.kind /\ PosLess(a.pos, b.pos)

\* labels left in the order of the scene (no sort)
SortLabelsNone(labels) == labels

RECURSIVE InsertSorted(_, _)
InsertSorted(sorted, x) ==
    IF sorted = <<>> THEN <<x>>
    ELSE IF LabelPosLess(x, Head(sorted)) THEN <<x>> \o sorted
    ELSE <<Head(sorted)>> \o InsertSorted(Tail(sorted), x)

\* labels.sort()
RECURSIVE SortLabels(_)
SortLabels(labels) ==
    IF labels = <<>> THEN <<>>
    ELSE InsertSorted(SortLabels(Tail(labels)), Head(labels))

HexChars == <<"0", "1", "2", "3", "4", "5", "6", "7",
              "8", "9", "a", "b", "c", "d", "e", "f">>

\* {:x?} of a u32
RECURSIVE HexDigits(_)
HexDigits(n) ==
    IF n < 16 THEN <<HexChars[n + 1]>>
    ELSE HexDigits(n \div 16) \o <<HexChars[(n % 16) + 1]>>

\* {:?} of a LabelKind
KindDebug(kind) ==
    CASE kind = "Condition" -> <<"C", "o", "n", "d", "i", "t", "i", "o", "n">>
      [] kind = "Call" -> <<"C", "a", "l", "l">>
      [] kind = "Jump" -> <<"J", "u", "m", "p">>
      [] kind = "TableCall" -> <<"T", "a", "b", "l", "e", "C", "a", "l", "l">>
      [] kind = "TableJump" -> <<"T", "a", "b", "l", "e", "J", "u", "m", "p">>

ToLowerChar(c) ==
    CASE c = "C" -> "c"
      [] c = "J" -> "j"
      [] c = "T" -> "t"
      [] OTHER -> c

\* format!("{:?}_0x{:x?}", label.kind, pos).to_lowercase()
LabelName(kind, pos) ==
    LET text == KindDebug(kind) \o <<"_", "0", "x">> \o HexDigits(pos)
    IN  [k \in 1..Len(text) |-> ToLowerChar(text[k])]

StartName == <<"s", "t", "a", "r", "t">>

\* the loop over the sorted labels: positions maps an offset to the name of
\* its Label; a Pos::Label stops it with "Labels were already resolved"
RECURSIVE InsertLabels(_, _)
InsertLabels(labels, positions) ==
    IF labels = <<>> THEN [st |-> "ok", positions |-> positions]
    ELSE LET label == Head(labels)
         IN  IF label.pos.t # "Offset"
             THEN [st |-> "already", positions |-> positions]
             ELSE IF label.pos.n \in DOMAIN positions
             THEN InsertLabels(Tail(labels), positions)
             ELSE InsertLabels(Tail(labels),
                    [o \in DOMAIN positions \cup {label.pos.n} |->
                        IF o = label.pos.n
                        THEN LabelName(label.kind, label.pos.n)
                        ELSE positions[o]])

\* positions.keys() sorted
RECURSIVE SortOffsets(_)
SortOffsets(S) ==
    IF S = {} THEN <<>>
    ELSE LET least == CHOOSE x \in S : \A y \in S : x <= y
         IN  <<least>> \o SortOffsets(S \ {least})

\* the opcode put in front of its block instead of behind
PushOpcodeFront(blocks, at, o) == [blocks EXCEPT ![at] = <<o>> \o @]

PushOpcode(blocks, at, o) == [blocks EXCEPT ![at] = Append(@, o)]

\* the loop over scene.opcodes: next is the index of next_offset in offsets
\* (past the end: None), cur the offset of cur_label, blocks the opcodes of
\* every Label
RECURSIVE ResolveLoop(_, _, _, _, _, _)
ResolveLoop(opcodes, offsets, next, cur_pos, cur, blocks) ==
    IF opcodes = <<>> THEN [st |-> "ok", blocks |-> blocks]
    ELSE LET o    == Head(opcodes)
             size == OpcodeByteSize(o)
         IN  IF next <= Len(offsets)
             THEN IF cur_pos < offsets[next]
                  THEN ResolveLoop(Tail(opcodes), offsets, next,
                                   cur_pos + size, cur,
                                   PushOpcode(blocks, cur, o))
                  ELSE IF cur_pos = offsets[next]
                  THEN ResolveLoop(Tail(opcodes), offsets, next + 1,
                                   cur_pos + size, offsets[next],
                                   PushOpcode(blocks, offsets[next], o))
                  ELSE [st |-> "misaligned", blocks |-> blocks]
             ELSE ResolveLoop(Tail(opcodes), offsets, next, cur_pos + size,
                              cur, PushOpcode(blocks, cur, o))

ByteToLabelPos(pos, positions) ==
    IF pos.t = "Offset" /\ pos.n \in DOMAIN positions
    THEN PosLabel(positions[pos.n])
    ELSE PosPanic

convert_byte_to_label_positions(opcodes, positions) ==
    [k \in 1..Len(opcodes) |->
        [opcodes[k] EXCEPT !.poss =
            [j \in 1..Len(@) |-> ByteToLabelPos(@[j], positions)]]]

resolve_labels(scene) ==
    LET labels == SortLabels(extract_labels(scene.opcodes))
        ins    == InsertLabels(labels, [o \in {0} |-> StartName])
        positions == ins.positions
        offsets == SortOffsets(DOMAIN positions)
        loop   == ResolveLoop(scene.opcodes, offsets, 2, 0, 0,
                              [o \in DOMAIN positions |-> <<>>])
    IN  IF ins.st # "ok"
        THEN [st |-> ins.st, offsets |-> <<>>, resolved |-> NoResolved]
        ELSE IF loop.st # "ok"
        THEN [st |-> loop.st, offsets |-> offsets, resolved |-> NoResolved]
        ELSE [st |-> "ok", offsets |-> offsets,
              resolved |->
                [header |-> scene.header,
                 labels |->
                    [k \in 1..Len(offsets) |->
                        [name |-> positions[offsets[k]],
                         opcodes |-> convert_byte_to_label_positions(
                                        loop.blocks[offsets[k]], positions)]]]]

RECURSIVE OpcodesByteSize(_)
OpcodesByteSize(opcodes) ==
    IF opcodes = <<>> THEN 0
    ELSE OpcodeByteSize(Head(opcodes)) + OpcodesByteSize(Tail(opcodes))

\* the loop of compile_labels with cur_pos counting opcodes, not bytes
RECURSIVE CompileLoopCount(_, _, _, _)
CompileLoopCount(labels, cur_pos, positions, opcodes) ==
    IF labels = <<>> THEN [positions |-> positions, opcodes |-> opcodes]
    ELSE LET label == Head(labels)
         IN  CompileLoopCount(Tail(labels),
                cur_pos + Len(label.opcodes),
                [n \in DOMAIN positions \cup {label.name} |->
                    IF n = label.name THEN cur_pos ELSE positions[n]],
                opcodes \o label.opcodes)

\* the loop of compile_labels: positions maps a name to cur_pos at its label
RECURSIVE CompileLoop(_, _, _, _)
CompileLoop(labels, cur_pos, positions, opcodes) ==
    IF labels = <<>> THEN [positions |-> positions, opcodes |-> opcodes]
    ELSE LET label == Head(labels)
         IN  CompileLoop(Tail(labels),
                cur_pos + OpcodesByteSize(label.opcodes),
                [n \in DOMAIN positions \cup {label.name} |->
                    IF n = label.name THEN cur_pos ELSE positions[n]],
                opcodes \o label.opcodes)

LabelToBytePos(pos, positions) ==
    IF pos.t = "Label" /\ pos.name \in DOMAIN positions
    THEN PosOffset(positions[pos.name])
    ELSE PosPanic

convert_label_to_byte_positions(opcodes, positions) ==
    [k \in 1..Len(opcodes) |->
        [opcodes[k] EXCEPT !.poss =
            [j \in 1..Len(@) |-> LabelToBytePos(@[j], positions)]]]

Panicked(opcodes) ==
    \E k \in 1..Len(opcodes) : \E j \in 1..Len(opcodes[k].poss) :
        opcodes[k].poss[j] = PosPanic

compile_labels(resolved) ==
    LET loop == CompileLoop(resolved.labels, 0, <<>>, <<>>)
        opcodes == convert_label_to_byte_positions(loop.opcodes,
                                                   loop.positions)
    IN  IF Panicked(opcodes)
        THEN [st |-> "panic", scene |-> NoScene]
        ELSE [st |-> "ok",
              scene |-> [header |-> resolved.header, opcodes |-> opcodes]]

\* Writeable for Pos::write: the success arm matches Pos::Byte, and the
\* variants of Pos are Offset and Label; every other Pos is an error
PosWrite(pos) ==
    IF pos.t = "Byte" THEN [st |-> "ok", out |-> WriteU32(pos.n)]
    ELSE [st |-> "error", out |-> <<>>]

\* Writeable for Vec<Pos>::write: stops at the first error
RECURSIVE PossWrite(_)
PossWrite(poss) ==
    IF poss = <<>> THEN [st |-> "ok", out |-> <<>>]
    ELSE LET first == PosWrite(Head(poss))
         IN  IF first.st # "ok" THEN first
             ELSE LET rest == PossWrite(Tail(poss))
                  IN  [st |-> rest.st, out |-> first.out \o rest.out]

\* Writeable for Condition::write, for IncDepth and DecDepth
ConditionWrite(c) ==
    CASE c = "IncDepth" -> <<40>>
      [] c = "DecDepth" -> <<41>>

RECURSIVE CondsWrite(_)
CondsWrite(conds) ==
    IF conds = <<>> THEN <<>>
    ELSE ConditionWrite(Head(conds)) \o CondsWrite(Tail(conds))

\* Writeable for Opcode::write: the tag, then the payload; the bytes written
\* before an error stay in the writer
OpcodeWrite(o) ==
    LET poss == PossWrite(o.poss)
    IN  CASE o.op = "WaitMouse" -> [st |-> "ok", out |-> <<1>>]
          [] o.op = "Condition" ->
                [st |-> poss.st,
                 out |-> <<21>> \o CondsWrite(o.conds) \o poss.out]
          [] o.op = "Call" -> [st |-> poss.st, out |-> <<27>> \o poss.out]
          [] o.op = "Jump" -> [st |-> poss.st, out |-> <<28>> \o poss.out]
          [] o.op = "TableCall" ->
                [st |-> poss.st,
                 out |-> <<29, Len(o.poss) % 256>> \o ValWrite(o.val)
                            \o poss.out]
          [] o.op = "TableJump" ->
                [st |-> poss.st,
                 out |-> <<30, Len(o.poss) % 256>> \o ValWrite(o.val)
                            \o poss.out]

\* Writeable for Vec<Opcode>::write
RECURSIVE OpcodesWrite(_)
OpcodesWrite(opcodes) ==
    IF opcodes = <<>> THEN [st |-> "ok", out |-> <<>>]
    ELSE LET first == OpcodeWrite(Head(opcodes))
         IN  IF first.st # "ok" THEN first
             ELSE LET rest == OpcodesWrite(Tail(opcodes))
                  IN  [st |-> rest.st, out |-> first.out \o rest.out]

\* Writeable for Header::write: the tag "TPC32"; the fields of the header
\* are not part of the scenes here
HeaderWrite(header) == <<84, 80, 67, 51, 50>>

\* Writeable for AVG32Scene::write
SceneWrite(scene) ==
    LET ops == OpcodesWrite(scene.opcodes)
    IN  IF ops.st # "ok"
        THEN [st |-> "error", out |-> HeaderWrite(scene.header) \o ops.out]
        ELSE [st |-> "ok",
              out |-> HeaderWrite(scene.header) \o ops.out \o <<0>>]

MaxOps == 3

MaxJumps == 2

LabOffsets == {0, 1, 3, 5, 6, 10, 12}

LabHeaders == {"header_a", "header_b"}

LabConds == <<"IncDepth", "DecDepth">>

LabVal == [value |-> 16, kind |-> "Const"]

LabJumpOps ==
    {OpJump(PosOffset(n)) : n \in LabOffsets}
        \cup {OpJump(PosLabel(StartName))}
        \cup {OpCall(PosOffset(n)) : n \in LabOffsets}
        \cup {OpCondition(LabConds, PosOffset(n)) : n \in LabOffsets}
        \cup {OpTableJump(LabVal, <<PosOffset(n)>>) : n \in {0, 5, 6}}
        \cup {OpTableCall(LabVal, <<PosOffset(1), PosOffset(6)>>),
              OpTableCall(LabVal, <<PosOffset(6), PosOffset(1)>>),
              OpTableCall(LabVal, <<PosOffset(5), PosOffset(5)>>)}

LabOps == LabJumpOps \cup {OpWaitMouse}

JumpCount(opcodes) ==
    Cardinality({k \in 1..Len(opcodes) : opcodes[k] \in LabJumpOps})

LabStart ==
    /\ labpc = "scene"
    /\ labscene \in {[header |-> h, opcodes |-> <<>>] : h \in LabHeaders}
    /\ laboffs = <<>>
    /\ labres = NoResolved
    /\ labout = NoScene
    /\ labwin = NoScene
    /\ labbytes = <<>>

LabFrame ==
    UNCHANGED <<valVars, lzVars, opVars, arVars, cdVars, txVars, scVars>>

\* avg32_scene, many1!(opcode): one more opcode of the scene
SceneOpcode ==
    /\ labpc = "scene"
    /\ Len(labscene.opcodes) < MaxOps
    /\ \E o \in LabOps :
          /\ o \in LabJumpOps => JumpCount(labscene.opcodes) < MaxJumps
          /\ labscene' = [labscene EXCEPT !.opcodes = Append(@, o)]
    /\ UNCHANGED <<labpc, laboffs, labres, labout, labwin, labbytes>>
    /\ LabFrame

\* disassemble: resolve_labels(&scene)?, on a parsed scene (many1: at least
\* one opcode)
ResolveLabels ==
    /\ labpc = "scene"
    /\ labscene.opcodes # <<>>
    /\ LET r == resolve_labels(labscene)
       IN  /\ labpc' = IF r.st = "ok" THEN "resolved" ELSE r.st
           /\ laboffs' = r.offsets
           /\ labres' = r.resolved
    /\ UNCHANGED <<labscene, labout, labwin, labbytes>>
    /\ LabFrame

\* assemble: compile_labels(&resolved)?
CompileLabels ==
    /\ labpc = "resolved"
    /\ LET r == compile_labels(labres)
       IN  /\ labpc' = IF r.st = "ok" THEN "compiled" ELSE r.st
           /\ labout' = r.scene
    /\ UNCHANGED <<labscene, laboffs, labres, labwin, labbytes>>
    /\ LabFrame

\* AVG32Scene::write of a parsed scene, or of the scene assemble returns
WriteScene ==
    /\ \/ labpc = "scene" /\ labscene.opcodes # <<>> /\ labwin' = labscene
       \/ labpc = "compiled" /\ labwin' = labout
    /\ LET r == SceneWrite(labwin')
       IN  /\ labpc' = IF r.st = "ok" THEN "written" ELSE "write_error"
           /\ labbytes' = r.out
    /\ UNCHANGED <<labscene, laboffs, labres, labout>>
    /\ LabFrame

\* label names written by hand in the text handed to assemble
EndName == <<"e", "n", "d">>

\* resolved scenes as read from the text handed to assemble: operands naming
\* blocks of the text, an operand naming a block the text does not have, an
\* operand that is still a byte offset
LabTexts ==
    {[header |-> h, labels |-> ls] :
        h \in LabHeaders,
        ls \in {<<[name |-> StartName,
                   opcodes |-> <<OpJump(PosLabel(StartName))>>]>>,
                <<[name |-> StartName,
                   opcodes |-> <<OpCall(PosLabel(EndName)), OpWaitMouse>>],
                  [name |-> EndName, opcodes |-> <<OpWaitMouse>>]>>,
                <<[name |-> StartName,
                   opcodes |-> <<OpJump(PosLabel(EndName))>>]>>,
                <<[name |-> StartName,
                   opcodes |-> <<OpWaitMouse,
                                 OpCondition(LabConds, PosLabel(EndName))>>]>>,
                <<[name |-> StartName,
                   opcodes |-> <<OpJump(PosOffset(0))>>]>>}}

\* assemble: the text is read into a LabelResolvedScene and compiled
Assemble ==
    /\ labpc = "scene"
    /\ labscene.opcodes = <<>>
    /\ \E resolved \in LabTexts :
          /\ resolved.header = labscene.header
          /\ labres' = resolved
          /\ LET r == compile_labels(resolved)
             IN  /\ labpc' = IF r.st = "ok" THEN "assembled"
                             ELSE "assemble_panic"
                 /\ labout' = r.scene
    /\ UNCHANGED <<labscene, laboffs, labwin, labbytes>>
    /\ LabFrame

InitLabel ==
    LabStart /\ IdleVal /\ IdleLz /\ IdleOp /\ IdleAr /\ IdleCond /\ IdleText
        /\ IdleScene

NextLabel ==
    \/ SceneOpcode \/ ResolveLabels \/ CompileLabels \/ WriteScene
    \/ Assemble

SpecLabel == InitLabel /\ [][NextLabel]_vars

(***************************************************************************)
(* resolve_labels / compile_labels: properties                             *)
(***************************************************************************)
\* the start address of opcode k: the sum of byte_size over the opcodes
\* before it
StartAddress(opcodes, k) == OpcodesByteSize(SubSeq(opcodes, 1, k - 1))

OpcodeStarts(opcodes) == {StartAddress(opcodes, k) : k \in 1..Len(opcodes)}

JumpTargets(opcodes) ==
    UNION {{opcodes[k].poss[j].n : j \in 1..Len(opcodes[k].poss)} :
              k \in 1..Len(opcodes)}

AllOffsets(opcodes) ==
    \A k \in 1..Len(opcodes) : \A j \in 1..Len(opcodes[k].poss) :
        opcodes[k].poss[j].t = "Offset"

RECURSIVE BlocksBefore(_, _)
BlocksBefore(labels, k) ==
    IF k <= 1 THEN <<>>
    ELSE BlocksBefore(labels, k - 1) \o labels[k - 1].opcodes

\* C1: whenever resolve_labels succeeds on a scene whose operands are all
\* offsets, compile_labels of the result returns the original scene: same
\* header, same opcodes, every Pos::Offset restored.
C1_LabelRoundTrip ==
    (labpc \in {"compiled", "panic"} /\ AllOffsets(labscene.opcodes)) =>
        /\ labpc = "compiled"
        /\ labout = labscene

\* C2: resolve_labels fails with the misaligned-opcode error whenever some
\* jump target is not the start address of an opcode, and when it succeeds
\* every label's offset is the start address of the first opcode of its
\* block.
C2_LabelsOnBoundaries ==
    /\ (/\ labpc \in {"resolved", "compiled", "misaligned"}
        /\ AllOffsets(labscene.opcodes)
        /\ ~(JumpTargets(labscene.opcodes)
                \subseteq OpcodeStarts(labscene.opcodes)))
          => labpc = "misaligned"
    /\ labpc \in {"resolved", "compiled"} =>
          \A k \in 1..Len(laboffs) :
             /\ labres.labels[k].opcodes # <<>>
             /\ OpcodesByteSize(BlocksBefore(labres.labels, k)) = laboffs[k]

\* the kinds that target offset b in the scene
KindsTargeting(opcodes, b) ==
    {opcodes[k].op : k \in {i \in 1..Len(opcodes) :
        \E j \in 1..Len(opcodes[i].poss) : opcodes[i].poss[j] = PosOffset(b)}}

\* the first kind, in the order Condition, Call, Jump, TableCall, TableJump,
\* that targets b
FirstKindTargeting(opcodes, b) ==
    LabelKinds[CHOOSE i \in 1..Len(LabelKinds) :
        /\ LabelKinds[i] \in KindsTargeting(opcodes, b)
        /\ \A h \in 1..(i - 1) : LabelKinds[h] \notin KindsTargeting(opcodes, b)]

\* the lowercase kind of a label name, as the documentation spells it
KindPrefix(kind) ==
    CASE kind = "Condition" -> <<"c", "o", "n", "d", "i", "t", "i", "o", "n">>
      [] kind = "Call" -> <<"c", "a", "l", "l">>
      [] kind = "Jump" -> <<"j", "u", "m", "p">>
      [] kind = "TableCall" -> <<"t", "a", "b", "l", "e", "c", "a", "l", "l">>
      [] kind = "TableJump" -> <<"t", "a", "b", "l", "e", "j", "u", "m", "p">>

\* <kind>_0x<b in lowercase hexadecimal>
ExpectedName(opcodes, b) ==
    KindPrefix(FirstKindTargeting(opcodes, b)) \o <<"_", "0", "x">>
        \o HexDigits(b)

\* C15: in a resolved scene there is one block for offset 0 and one for
\* every other jump target; the block at offset 0 is named "start" even when
\* it is targeted, the block of any other target b is named
\* <kind>_0x<b hex lowercase> with the first kind targeting b in the order
\* Condition, Call, Jump, TableCall, TableJump, and no two blocks share a
\* name.
C15_LabelNames ==
    labpc \in {"resolved", "compiled", "panic"} =>
        /\ {laboffs[k] : k \in 1..Len(laboffs)}
              = {0} \cup JumpTargets(labscene.opcodes)
        /\ Len(labres.labels) = Len(laboffs)
        /\ \A k \in 1..Len(laboffs) :
              labres.labels[k].name =
                 IF laboffs[k] = 0 THEN StartName
                 ELSE ExpectedName(labscene.opcodes, laboffs[k])
        /\ \A k \in 1..Len(laboffs) : \A h \in 1..Len(laboffs) :
              labres.labels[k].name = labres.labels[h].name => k = h

\* a Jump and then a Condition target offset 5: the block is condition_0x5
C15_Witness ==
    /\ labpc = "resolved"
    /\ Len(labscene.opcodes) = 2
    /\ labscene.opcodes[1] = OpJump(PosOffset(5))
    /\ labscene.opcodes[2] = OpCondition(LabConds, PosOffset(5))
    /\ laboffs = <<0, 5>>
    /\ labres.labels[2].name =
          <<"c", "o", "n", "d", "i", "t", "i", "o", "n", "_", "0", "x", "5">>

\* the index of the block named by a Pos::Label
BlockNamed(labels, name) ==
    CHOOSE b \in 1..Len(labels) : labels[b].name = name

\* C16: in every scene returned by compile_labels, each control-flow
\* operand is a Pos::Offset; its value is 0 or the sum of byte_size over the
\* opcodes of the output that precede the block named by the operand in
\* the resolved scene (the opcodes before the block's first opcode).
C16_CompiledOffsets ==
    labpc = "compiled" =>
        LET labelled == BlocksBefore(labres.labels, Len(labres.labels) + 1)
        IN  /\ Len(labout.opcodes) = Len(labelled)
            /\ \A k \in 1..Len(labelled) :
                  /\ Len(labout.opcodes[k].poss) = Len(labelled[k].poss)
                  /\ \A j \in 1..Len(labelled[k].poss) :
                        LET pos == labout.opcodes[k].poss[j]
                            b == BlockNamed(labres.labels,
                                            labelled[k].poss[j].name)
                            before == Len(BlocksBefore(labres.labels, b))
                        IN  /\ pos.t = "Offset"
                            /\ \/ pos.n = 0
                               \/ pos.n = StartAddress(labout.opcodes,
                                                       before + 1)

\* Jump 0, Condition 12, WaitMouse: the Condition (at 5, 7 bytes) targets
\* the WaitMouse at 12, the second block of the resolved scene
C16_Witness ==
    /\ labpc = "compiled"
    /\ Len(labres.labels) = 2
    /\ Len(labres.labels[1].opcodes) = 2
    /\ labres.labels[2].opcodes = <<OpWaitMouse>>
    /\ labout.opcodes[2] = OpCondition(LabConds, PosOffset(12))
    /\ labout.opcodes[1] = OpJump(PosOffset(0))

\* some control-flow operand of the opcodes is a Pos::Label
HasLabel(opcodes) ==
    \E k \in 1..Len(opcodes) : \E j \in 1..Len(opcodes[k].poss) :
        opcodes[k].poss[j].t = "Label"

\* the bytes of one opcode with every Pos as its 4-byte little-endian offset
OffsetBytes(o) ==
    LET RECURSIVE le(_)
        le(poss) == IF poss = <<>> THEN <<>>
                    ELSE WriteU32(Head(poss).n) \o le(Tail(poss))
    IN  CASE o.op = "WaitMouse" -> <<1>>
          [] o.op = "Condition" -> <<21>> \o CondsWrite(o.conds) \o le(o.poss)
          [] o.op = "Call" -> <<27>> \o le(o.poss)
          [] o.op = "Jump" -> <<28>> \o le(o.poss)
          [] o.op = "TableCall" ->
                <<29, Len(o.poss)>> \o ValWrite(o.val) \o le(o.poss)
          [] o.op = "TableJump" ->
                <<30, Len(o.poss)>> \o ValWrite(o.val) \o le(o.poss)

RECURSIVE OffsetsBytes(_)
OffsetsBytes(opcodes) ==
    IF opcodes = <<>> THEN <<>>
    ELSE OffsetBytes(Head(opcodes)) \o OffsetsBytes(Tail(opcodes))

\* C17: writing a scene that still holds a Pos::Label in a Condition, Call,
\* Jump, TableCall or TableJump returns an error, and in a scene without
\* labels every Pos is written as its 4-byte little-endian offset: the write
\* succeeds with the tag "TPC32", the opcodes and the closing 0x00.
C17_PosWrite ==
    labpc \in {"written", "write_error"} =>
        IF HasLabel(labwin.opcodes)
        THEN labpc = "write_error"
        ELSE /\ labpc = "written"
             /\ labbytes = HeaderWrite(labwin.header)
                              \o OffsetsBytes(labwin.opcodes) \o <<0>>

\* two opcode lists are the same up to the value of their Pos operands
SameButPos(a, b) ==
    /\ Len(a) = Len(b)
    /\ \A k \in 1..Len(a) :
          /\ a[k].op = b[k].op
          /\ a[k].conds = b[k].conds
          /\ a[k].val = b[k].val
          /\ Len(a[k].poss) = Len(b[k].poss)

\* C23: when resolve_labels succeeds its blocks are in strictly ascending
\* offset order and their opcode lists, concatenated in block order, are the
\* opcodes of the scene in the same order with only the Pos operands
\* rewritten; compile_labels returns that concatenation, again with only the
\* Pos operands rewritten.
C23_OrderPreserved ==
    /\ labpc \in {"resolved", "compiled", "panic"} =>
          /\ \A k \in 1..(Len(laboffs) - 1) : laboffs[k] < laboffs[k + 1]
          /\ Len(labres.labels) = Len(laboffs)
          /\ SameButPos(BlocksBefore(labres.labels, Len(labres.labels) + 1),
                        labscene.opcodes)
    /\ labpc = "compiled" =>
          SameButPos(labout.opcodes,
                     BlocksBefore(labres.labels, Len(labres.labels) + 1))

\* three different opcodes in two blocks, resolved and compiled again
C23_Witness ==
    /\ labpc = "compiled"
    /\ Len(labscene.opcodes) = 3
    /\ labscene.opcodes[1].op = "Call"
    /\ labscene.opcodes[2] = OpWaitMouse
    /\ labscene.opcodes[3].op = "TableJump"
    /\ laboffs = <<0, 5>>
    /\ Len(labres.labels[1].opcodes) = 1
    /\ Len(labres.labels[2].opcodes) = 2

\* the names of the blocks of a resolved scene
BlockNames(resolved) ==
    {resolved.labels[k].name : k \in 1..Len(resolved.labels)}

\* some operand of the resolved scene names a block that is not there
NamesMissingBlock(resolved) ==
    LET opcodes == BlocksBefore(resolved.labels, Len(resolved.labels) + 1)
    IN  \E k \in 1..Len(opcodes) : \E j \in 1..Len(opcodes[k].poss) :
            /\ opcodes[k].poss[j].t = "Label"
            /\ opcodes[k].poss[j].name \notin BlockNames(resolved)

\* C24: resolve_labels returns the labels-already-resolved error when some
\* control-flow operand of the scene is a Pos::Label, and compile_labels
\* returns the unknown-label error, not a crash, when an operand names a
\* label that has no block.
C24_LabelErrors ==
    /\ (/\ labpc \in {"resolved", "already", "misaligned", "compiled", "panic"}
        /\ HasLabel(labscene.opcodes)) => labpc = "already"
    /\ (/\ labpc \in {"assembled", "assemble_panic", "assemble_error"}
        /\ NamesMissingBlock(labres)) => labpc = "assemble_error"

(***************************************************************************)
(* parser.rs / write.rs: the tag bytes of opcodes and of sub-commands      *)
(***************************************************************************)
\* the arms of switch!(le_u8, ...) in `opcode`, in source order, as
\* <<tag, variant built by the arm's parser>>
OpcodeArms ==
    <<<<1, "WaitMouse">>, <<2, "Newline">>, <<3, "WaitMouseText">>,
      <<4, "TextWin">>, <<11, "Graphics">>, <<14, "Sound">>,
      <<16, "DrawValText">>, <<19, "Fade">>, <<21, "Condition">>,
      <<22, "JumpToScene">>, <<23, "ScreenShake">>, <<25, "Wait">>,
      <<27, "Call">>, <<28, "Jump">>, <<29, "TableCall">>,
      <<30, "TableJump">>, <<32, "Return">>, <<34, "Unknown0x22">>,
      <<35, "Unknown0x23">>, <<36, "Unknown0x24">>, <<37, "Unknown0x25">>,
      <<38, "Unknown0x26">>, <<39, "Unknown0x27">>, <<40, "Unknown0x28">>,
      <<41, "Unknown0x29">>, <<46, "ScenarioMenu">>,
      <<47, "ScenarioMenu">>, <<49, "TextRank">>, <<55, "SetFlag">>,
      <<57, "CopyFlag">>, <<59, "SetValLiteral">>, <<60, "AddVal">>,
      <<61, "SubVal">>, <<62, "MulVal">>, <<63, "DivVal">>,
      <<64, "ModVal">>, <<65, "AndVal">>, <<66, "OrVal">>,
      <<67, "XorVal">>, <<73, "SetVal">>, <<74, "AddValSelf">>,
      <<75, "SubValSelf">>, <<76, "MulValSelf">>, <<77, "DivValSelf">>,
      <<78, "ModValSelf">>, <<79, "AndValSelf">>, <<80, "OrValSelf">>,
      <<81, "XorValSelf">>, <<86, "SetFlagRandom">>,
      <<87, "SetValRandom">>, <<88, "Choice">>, <<89, "String">>,
      <<92, "SetMulti">>, <<96, "System">>, <<97, "Name">>,
      <<100, "BufferRegion">>, <<100, "Unknown0x65">>, <<103, "Buffer">>,
      <<104, "Flash">>, <<106, "MultiPdt">>, <<108, "AreaBuffer">>,
      <<109, "MouseCtrl">>, <<112, "WindowVar">>, <<114, "MessageWin">>,
      <<115, "SystemVar">>, <<116, "PopupMenu">>, <<117, "Volume">>,
      <<118, "NovelMode">>, <<234, "Unknown0xea">>, <<254, "TextHankaku">>,
      <<255, "TextZenkaku">>>>

\* the arms of snd_cmd, scenario_menu_cmd and system_var_cmd
SndCmdArms ==
    <<<<1, "BgmLoop">>, <<2, "BgmWait">>, <<3, "BgmOnce">>,
      <<5, "BgmFadeInLoop">>, <<6, "BgmFadeInWait">>,
      <<7, "BgmFadeInOnce">>, <<16, "BgmFadeOut">>, <<17, "BgmStop">>,
      <<18, "BgmRewind">>, <<22, "BgmUnknown1">>, <<32, "KoePlayWait">>,
      <<33, "KoePlay">>, <<34, "KoePlay2">>, <<48, "WavPlay">>,
      <<49, "WavPlay2">>, <<50, "WavLoop">>, <<51, "WavLoop2">>,
      <<52, "WavPlayWait">>, <<53, "WavPlayWait2">>, <<54, "WavStop">>,
      <<55, "WavStop2">>, <<56, "WavStop">>, <<57, "WavUnknown0x39">>,
      <<64, "SePlay">>, <<80, "MoviePlay">>, <<81, "MovieLoop">>,
      <<82, "MovieWait">>, <<83, "MovieWaitCancelable">>,
      <<80, "MovieWait2">>, <<80, "MovieWaitCancelable2">>,
      <<96, "Unknown1">>>>

ScenarioMenuCmdArms ==
    <<<<1, "SetBit">>, <<2, "SetBit2">>>>

SystemVarCmdArms ==
    <<<<1, "GetMessageSize">>, <<2, "SetMessageSize">>,
      <<5, "GetMsgMojiSize">>, <<6, "SetMsgMojiSize">>,
      <<16, "GetMojiColor">>, <<17, "SetMojiColor">>,
      <<18, "GetMsgCancel">>, <<19, "SetMsgCancel">>,
      <<22, "GetMojiKage">>, <<23, "SetMojiKage">>, <<24, "GetKageColor">>,
      <<25, "SetKageColor">>, <<26, "GetSelCancel">>,
      <<27, "SetSelCancel">>, <<28, "GetCtrlKey">>, <<29, "SetCtrlKey">>,
      <<30, "GetSaveStart">>, <<31, "SetSaveStart">>,
      <<32, "GetDisableNvlTextFlag">>, <<33, "SetDisableNvlTextFlag">>,
      <<34, "GetFadeTime">>, <<35, "SetFadeTime">>,
      <<36, "GetCursorMono">>, <<37, "SetCursorMono">>,
      <<38, "GetCopyWindSw">>, <<39, "SetCopyWindSw">>,
      <<40, "GetMsgSpeed">>, <<41, "SetMsgSpeed">>, <<42, "GetMsgSpeed2">>,
      <<43, "SetMsgSpeed2">>, <<44, "GetReturnKeyWait">>,
      <<45, "SetReturnKeyWait">>, <<46, "GetKoeTextType">>,
      <<47, "SetKoeTextType">>, <<48, "GetGameSpeckInit">>,
      <<49, "SetCursorPosition">>, <<50, "SetDisableKeyMouseFlag">>,
      <<51, "GetGameSpeckInit2">>, <<52, "SetGameSpeckInit">>>>

\* the first byte each arm of Writeable::write emits, as <<variant, tag>>
OpcodeWriteArms ==
    <<<<"WaitMouse", 1>>, <<"Newline", 2>>, <<"WaitMouseText", 3>>,
      <<"TextWin", 4>>, <<"Op0x05", 5>>, <<"Op0x06", 6>>, <<"Op0x08", 8>>,
      <<"Graphics", 11>>, <<"Op0x0c", 12>>, <<"Sound", 14>>,
      <<"DrawValText", 16>>, <<"Fade", 19>>, <<"Condition", 21>>,
      <<"JumpToScene", 22>>, <<"ScreenShake", 23>>, <<"Op0x18", 24>>,
      <<"Wait", 25>>, <<"Op0x1a", 26>>, <<"Call", 27>>, <<"Jump", 28>>,
      <<"TableCall", 29>>, <<"TableJump", 30>>, <<"Return", 32>>,
      <<"Unknown0x22", 34>>, <<"Unknown0x23", 35>>, <<"Unknown0x24", 36>>,
      <<"Unknown0x25", 37>>, <<"Unknown0x26", 38>>, <<"Unknown0x27", 39>>,
      <<"Unknown0x28", 40>>, <<"Unknown0x29", 41>>, <<"Op0x2c", 44>>,
      <<"Op0x2d", 45>>, <<"ScenarioMenu", 46>>, <<"Op0x2f", 47>>,
      <<"Op0x30", 48>>, <<"TextRank", 49>>, <<"SetFlag", 55>>,
      <<"CopyFlag", 57>>, <<"SetValLiteral", 59>>, <<"AddVal", 60>>,
      <<"SubVal", 61>>, <<"MulVal", 62>>, <<"DivVal", 63>>,
      <<"ModVal", 64>>, <<"AndVal", 65>>, <<"OrVal", 66>>,
      <<"XorVal", 67>>, <<"SetVal", 73>>, <<"AddValSelf", 74>>,
      <<"SubValSelf", 75>>, <<"MulValSelf", 76>>, <<"DivValSelf", 77>>,
      <<"ModValSelf", 78>>, <<"AndValSelf", 79>>, <<"OrValSelf", 80>>,
      <<"XorValSelf", 81>>, <<"SetFlagRandom", 86>>,
      <<"SetValRandom", 87>>, <<"Choice", 88>>, <<"String", 89>>,
      <<"Op0x5b", 91>>, <<"SetMulti", 92>>, <<"Op0x5d", 93>>,
      <<"Op0x5e", 94>>, <<"Op0x5f", 95>>, <<"System", 96>>, <<"Name", 97>>,
      <<"Op0x63", 99>>, <<"BufferRegion", 100>>, <<"Unknown0x65", 101>>,
      <<"Buffer", 103>>, <<"Flash", 104>>, <<"Op0x69", 105>>,
      <<"MultiPdt", 106>>, <<"Op0x66", 102>>, <<"AreaBuffer", 108>>,
      <<"MouseCtrl", 109>>, <<"Op0x6e", 110>>, <<"Op0x6f", 111>>,
      <<"WindowVar", 112>>, <<"MessageWin", 114>>, <<"SystemVar", 115>>,
      <<"PopupMenu", 116>>, <<"Volume", 117>>, <<"NovelMode", 118>>,
      <<"Op0x7f", 127>>, <<"Unknown0xea", 234>>, <<"TextHankaku", 254>>,
      <<"TextZenkaku", 255>>>>

SndCmdWriteArms ==
    <<<<"BgmLoop", 1>>, <<"BgmWait", 2>>, <<"BgmOnce", 3>>,
      <<"BgmFadeInLoop", 5>>, <<"BgmFadeInWait", 6>>,
      <<"BgmFadeInOnce", 7>>, <<"BgmFadeOut", 16>>, <<"BgmStop", 17>>,
      <<"BgmRewind", 18>>, <<"BgmUnknown1", 22>>, <<"KoePlayWait", 32>>,
      <<"KoePlay", 33>>, <<"KoePlay2", 34>>, <<"WavPlay", 48>>,
      <<"WavPlay2", 49>>, <<"WavLoop", 50>>, <<"WavLoop2", 51>>,
      <<"WavPlayWait", 52>>, <<"WavPlayWait2", 53>>, <<"WavStop", 54>>,
      <<"WavStop2", 55>>, <<"WavStop3", 56>>, <<"WavUnknown0x39", 57>>,
      <<"SePlay", 68>>, <<"MoviePlay", 80>>, <<"MovieLoop", 81>>,
      <<"MovieWait", 82>>, <<"MovieWaitCancelable", 83>>,
      <<"MovieWait2", 84>>, <<"MovieWaitCancelable2", 85>>,
      <<"Unknown1", 96>>>>

ScenarioMenuCmdWriteArms ==
    <<<<"SetBit", 1>>, <<"SetBit2", 2>>>>

SystemVarCmdWriteArms ==
    <<<<"GetMessageSize", 1>>, <<"SetMessageSize", 2>>,
      <<"GetMsgMojiSize", 4>>, <<"SetMsgMojiSize", 6>>,
      <<"GetMojiColor", 16>>, <<"SetMojiColor", 17>>,
      <<"GetMsgCancel", 18>>, <<"SetMsgCancel", 19>>,
      <<"GetMojiKage", 22>>, <<"SetMojiKage", 23>>, <<"GetKageColor", 24>>,
      <<"SetKageColor", 25>>, <<"GetSelCancel", 26>>,
      <<"SetSelCancel", 27>>, <<"GetCtrlKey", 28>>, <<"SetCtrlKey", 29>>,
      <<"GetSaveStart", 30>>, <<"SetSaveStart", 31>>,
      <<"GetDisableNvlTextFlag", 32>>, <<"SetDisableNvlTextFlag", 33>>,
      <<"GetFadeTime", 34>>, <<"SetFadeTime", 35>>,
      <<"GetCursorMono", 36>>, <<"SetCursorMono", 37>>,
      <<"GetCopyWindSw", 38>>, <<"SetCopyWindSw", 39>>,
      <<"GetMsgSpeed", 40>>, <<"SetMsgSpeed", 41>>, <<"GetMsgSpeed2", 42>>,
      <<"SetMsgSpeed2", 43>>, <<"GetReturnKeyWait", 44>>,
      <<"SetReturnKeyWait", 45>>, <<"GetKoeTextType", 46>>,
      <<"SetKoeTextType", 47>>, <<"GetGameSpeckInit", 48>>,
      <<"SetCursorPosition", 49>>, <<"SetDisableKeyMouseFlag", 50>>,
      <<"GetGameSpeckInit2", 51>>, <<"SetGameSpeckInit", 52>>>>

\* switch!: the first arm whose pattern equals the byte; "none": no arm,
\* the parser fails
SwitchArm(arms, byte) ==
    LET hits == {k \in 1..Len(arms) : arms[k][1] = byte}
    IN  IF hits = {} THEN "none"
        ELSE arms[CHOOSE k \in hits : \A j \in hits : k <= j][2]

\* match self: the arm of the variant
WriteTag(arms, variant) ==
    arms[CHOOSE k \in 1..Len(arms) : arms[k][1] = variant][2]

\* the sub-command parser an opcode parser calls, by the variant it builds
SubArms(variant) ==
    CASE variant = "Sound" -> SndCmdArms
      [] variant = "ScenarioMenu" -> ScenarioMenuCmdArms
      [] variant = "SystemVar" -> SystemVarCmdArms
      [] OTHER -> <<>>

SubWriteArms(variant) ==
    CASE variant = "Sound" -> SndCmdWriteArms
      [] variant = "ScenarioMenu" -> ScenarioMenuCmdWriteArms
      [] variant = "SystemVar" -> SystemVarCmdWriteArms
      [] OTHER -> <<>>

OpBytes == 0..255

\* the variants Opcode::write has an arm for
OpcodeVariants == {OpcodeWriteArms[k][1] : k \in 1..Len(OpcodeWriteArms)}

\* the sub-command variants the write of a variant has an arm for
SubVariants(variant) ==
    IF SubWriteArms(variant) = <<>> THEN {"none"}
    ELSE {SubWriteArms(variant)[k][1] : k \in 1..Len(SubWriteArms(variant))}

\* either the bytes handed to the parser, or the Opcode handed to write
OpStart ==
    /\ \/ /\ oppc = "bytes"
          /\ optag \in OpBytes
          /\ opsub \in OpBytes
          /\ opvar = "none"
          /\ opsubvar = "none"
       \/ /\ oppc = "opcode"
          /\ optag = 0
          /\ opsub = 0
          /\ opvar \in OpcodeVariants
          /\ opsubvar \in SubVariants(opvar)
    /\ opread = <<>>
    /\ opout = <<>>
    /\ opback = <<"none", "none">>

OpFrame ==
    UNCHANGED <<valVars, lzVars, labVars, arVars, cdVars, txVars, scVars>>

\* opcode: the tag byte selects the opcode parser; the parsers of Sound,
\* ScenarioMenu and SystemVar read a second tag byte
ParseOpcode ==
    /\ oppc = "bytes"
    /\ LET variant == SwitchArm(OpcodeArms, optag)
           sub     == SwitchArm(SubArms(variant), opsub)
       IN  IF variant = "none"
           THEN /\ oppc' = "error"
                /\ UNCHANGED <<opvar, opsubvar, opread>>
           ELSE IF SubArms(variant) = <<>>
           THEN /\ oppc' = "parsed"
                /\ opvar' = variant
                /\ opread' = <<optag>>
                /\ UNCHANGED opsubvar
           ELSE IF sub = "none"
           THEN /\ oppc' = "error"
                /\ UNCHANGED <<opvar, opsubvar, opread>>
           ELSE /\ oppc' = "parsed"
                /\ opvar' = variant
                /\ opsubvar' = sub
                /\ opread' = <<optag, opsub>>
    /\ UNCHANGED <<optag, opsub, opout, opback>>
    /\ OpFrame

\* Writeable for Opcode::write, and the write of the sub-command inside it
WriteOpcode ==
    /\ oppc = "parsed"
    /\ oppc' = "written"
    /\ opout' = <<WriteTag(OpcodeWriteArms, opvar)>>
                  \o (IF opsubvar = "none" THEN <<>>
                      ELSE <<WriteTag(SubWriteArms(opvar), opsubvar)>>)
    /\ UNCHANGED <<optag, opsub, opvar, opsubvar, opread, opback>>
    /\ OpFrame

\* Writeable for Opcode::write of an Opcode value: the tag bytes it emits
SerializeOpcode ==
    /\ oppc = "opcode"
    /\ oppc' = "serialized"
    /\ opout' = <<WriteTag(OpcodeWriteArms, opvar)>>
                  \o (IF opsubvar = "none" THEN <<>>
                      ELSE <<WriteTag(SubWriteArms(opvar), opsubvar)>>)
    /\ UNCHANGED <<optag, opsub, opvar, opsubvar, opread, opback>>
    /\ OpFrame

\* opcode, on the tag bytes that write emitted
ReparseOpcode ==
    /\ oppc = "serialized"
    /\ LET variant == SwitchArm(OpcodeArms, opout[1])
           sub     == IF Len(opout) < 2 THEN "none"
                      ELSE SwitchArm(SubArms(variant), opout[2])
       IN  IF variant = "none"
           THEN /\ oppc' = "reparse_error"
                /\ UNCHANGED opback
           ELSE IF SubArms(variant) = <<>>
           THEN /\ oppc' = "reparsed"
                /\ opback' = <<variant, "none">>
           ELSE IF sub = "none"
           THEN /\ oppc' = "reparse_error"
                /\ UNCHANGED opback
           ELSE /\ oppc' = "reparsed"
                /\ opback' = <<variant, sub>>
    /\ UNCHANGED <<optag, opsub, opvar, opsubvar, opread, opout>>
    /\ OpFrame

InitOp ==
    OpStart /\ IdleVal /\ IdleLz /\ IdleLab /\ IdleAr /\ IdleCond /\ IdleText
        /\ IdleScene

NextOp == ParseOpcode \/ WriteOpcode \/ SerializeOpcode \/ ReparseOpcode

SpecOp == InitOp /\ [][NextOp]_vars

(***************************************************************************)
(* tag bytes: properties                                                   *)
(***************************************************************************)
\* C3: for every tag byte the opcode dispatch accepts, and every tag byte a
\* nested sub-command dispatch accepts, writing the parsed variant emits the
\* tag bytes that were read.
C3_TagRoundTrip == oppc = "written" => opout = opread

\* C18: the opcode dispatch covers every variant that write serializes:
\* parsing the tag bytes write emits for a variant succeeds and gives the
\* variant back; and tag 0x65 parses to Unknown0x65 while tag 0x64 parses to
\* BufferRegion.
C18_DispatchExhaustive ==
    /\ oppc \in {"reparsed", "reparse_error"} =>
          /\ oppc = "reparsed"
          /\ opback = <<opvar, opsubvar>>
    /\ (oppc \in {"parsed", "error"} /\ optag = 101) =>
          (oppc = "parsed" /\ opvar = "Unknown0x65")
    /\ (oppc \in {"parsed", "error"} /\ optag = 100) =>
          (oppc = "parsed" /\ opvar = "BufferRegion")

(***************************************************************************)
(* archive.rs: Archive, ArchiveEntry, ArchiveData                          *)
(***************************************************************************)
\* mem::size_of::<u32>(), Writeable for u32::byte_size
U32ByteSize == 4

\* the filename field of a directory entry: 0x10 bytes
FilenameField == 16

\* the uninterpreted blocks unk1 and unk2: 0x0C bytes each
UnkSize == 12

\* b"PACL" and b"PACK"
PaclTag == <<80, 65, 67, 76>>

PackTag == <<80, 65, 67, 75>>

Zeros(n) == [k \in 1..n |-> 0]

\* a String is a sequence of code points; String::as_bytes is its UTF-8
Utf8(cp) ==
    IF cp < 128 THEN <<cp>>
    ELSE IF cp < 2048 THEN <<192 + (cp \div 64), 128 + (cp % 64)>>
    ELSE <<224 + (cp \div 4096), 128 + ((cp \div 64) % 64), 128 + (cp % 64)>>

RECURSIVE AsBytes(_)
AsBytes(str) ==
    IF str = <<>> THEN <<>> ELSE Utf8(Head(str)) \o AsBytes(Tail(str))

\* Writeable for ArchiveEntry::byte_size
ArchiveEntryByteSize(e) == FilenameField + 4 * U32ByteSize

\* a plausible slip: the 16 bytes of the blob header left out
ArchiveDataByteSizeNoHeader(d) == Len(d.data)

\* Writeable for ArchiveData::byte_size
ArchiveDataByteSize(d) == Len(PackTag) + 3 * U32ByteSize + Len(d.data)

RECURSIVE EntriesByteSize(_)
EntriesByteSize(entries) ==
    IF entries = <<>> THEN 0
    ELSE ArchiveEntryByteSize(Head(entries)) + EntriesByteSize(Tail(entries))

RECURSIVE DatasByteSize(_)
DatasByteSize(datas) ==
    IF datas = <<>> THEN 0
    ELSE ArchiveDataByteSize(Head(datas)) + DatasByteSize(Tail(datas))

\* Writeable for Archive::byte_size
ArchiveByteSize(a) ==
    Len(PaclTag) + Len(a.unk1) + U32ByteSize + Len(a.unk2)
        + EntriesByteSize(a.entries) + DatasByteSize(a.data)

\* Archive::new
ArchiveNew ==
    [unk1 |-> Zeros(UnkSize), unk2 |-> Zeros(UnkSize),
     entries |-> <<>>, data |-> <<>>]

\* a plausible slip: filesize and orgsize taken from the compressed bytes
add_entry_compressed_size(a, filename, data) ==
    LET compressed == compress(data)
        entry == [filename |-> filename,
                  offset |-> ArchiveByteSize(a),
                  arcsize |-> Len(compressed) + 16,
                  filesize |-> Len(compressed),
                  unk1 |-> 1]
        blob  == [entries |-> 0,
                  orgsize |-> Len(compressed),
                  arcsize |-> Len(compressed) + 16,
                  data |-> compressed]
    IN  [a EXCEPT !.entries = Append(@, entry), !.data = Append(@, blob)]

\* Archive::add_entry
add_entry(a, filename, data) ==
    LET compressed == compress(data)
        entry == [filename |-> filename,
                  offset |-> ArchiveByteSize(a),
                  arcsize |-> Len(compressed) + 16,
                  filesize |-> Len(data),
                  unk1 |-> 1]
        blob  == [entries |-> 0,
                  orgsize |-> Len(data),
                  arcsize |-> Len(compressed) + 16,
                  data |-> compressed]
    IN  [a EXCEPT !.entries = Append(@, entry), !.data = Append(@, blob)]

\* a plausible slip: the offset advanced by the size of the file, not of
\* the blob
RECURSIVE FinalizeFromFilesize(_, _, _)
FinalizeFromFilesize(a, i, offset) ==
    IF i > Len(a.entries) THEN [st |-> "ok", archive |-> a]
    ELSE IF i > Len(a.data)
    THEN [st |-> "panic",
          archive |-> [a EXCEPT !.entries[i].offset = offset]]
    ELSE FinalizeFromFilesize([a EXCEPT !.entries[i].offset = offset], i + 1,
                              offset + a.entries[i].filesize)

\* the loop of Archive::finalize from entry i on; self.data[i] past the end
\* of data panics (index out of bounds)
RECURSIVE FinalizeFrom(_, _, _)
FinalizeFrom(a, i, offset) ==
    IF i > Len(a.entries) THEN [st |-> "ok", archive |-> a]
    ELSE IF i > Len(a.data)
    THEN [st |-> "panic",
          archive |-> [a EXCEPT !.entries[i].offset = offset]]
    ELSE FinalizeFrom([a EXCEPT !.entries[i].offset = offset], i + 1,
                      offset + ArchiveDataByteSize(a.data[i]))

\* Archive::finalize
finalize(a) ==
    FinalizeFrom(a, 1,
        Len(PaclTag) + Len(a.unk1) + U32ByteSize + Len(a.unk2)
            + EntriesByteSize(a.entries))
\* Writeable for ArchiveEntry::write: what it emits and how it returns
ArchiveEntryWrite(e) ==
    LET bytes == AsBytes(e.filename)
    IN  IF Len(bytes) > FilenameField
        THEN [st |-> "error", out |-> <<>>]
        ELSE [st |-> "ok",
              out |-> bytes \o Zeros(FilenameField - Len(bytes))
                        \o WriteU32(e.offset) \o WriteU32(e.arcsize)
                        \o WriteU32(e.filesize) \o WriteU32(e.unk1)]

\* a plausible slip: the blob written without its arcsize field
ArchiveDataWriteNoArcsize(d) ==
    PackTag \o WriteU32(d.entries) \o WriteU32(d.orgsize) \o d.data

\* Writeable for ArchiveData::write
ArchiveDataWrite(d) ==
    PackTag \o WriteU32(d.entries) \o WriteU32(d.orgsize)
        \o WriteU32(d.arcsize) \o d.data

\* `for entry in self.entries.iter() { entry.write(writer)?; }`
RECURSIVE EntriesWrite(_)
EntriesWrite(entries) ==
    IF entries = <<>> THEN [st |-> "ok", out |-> <<>>]
    ELSE LET first == ArchiveEntryWrite(Head(entries))
             rest  == EntriesWrite(Tail(entries))
         IN  IF first.st # "ok" THEN first
             ELSE [st |-> rest.st, out |-> first.out \o rest.out]

RECURSIVE DatasWrite(_)
DatasWrite(datas) ==
    IF datas = <<>> THEN <<>>
    ELSE ArchiveDataWrite(Head(datas)) \o DatasWrite(Tail(datas))

\* a plausible slip: the length check made after the header is emitted
ArchiveWriteLateCheck(a) ==
    [st |-> IF Len(a.entries) # Len(a.data) THEN "error" ELSE "ok",
     out |-> PaclTag \o a.unk1 \o WriteU32(Len(a.entries)) \o a.unk2]

\* Writeable for Archive::write
ArchiveWrite(a) ==
    IF Len(a.entries) # Len(a.data)
    THEN [st |-> "error", out |-> <<>>]
    ELSE LET head    == PaclTag \o a.unk1 \o WriteU32(Len(a.entries))
                            \o a.unk2
             entries == EntriesWrite(a.entries)
         IN  IF entries.st # "ok"
             THEN [st |-> "error", out |-> head \o entries.out]
             ELSE [st |-> "ok",
                   out |-> head \o entries.out \o DatasWrite(a.data)]

\* le_u32 over the first four bytes
ReadU32(input) ==
    input[1] + 256 * input[2] + 65536 * input[3] + 16777216 * input[4]

Drop(input, n) == SubSeq(input, n + 1, Len(input))

\* decode_sjis over the bytes the inputs hold: ASCII maps to itself, a byte of
\* 0xA1..=0xDF to the half-width katakana U+FF61 + (b - 0xA1); a lead byte
\* without its trail byte is an error
RECURSIVE decode_sjis(_)
decode_sjis(bytes) ==
    IF bytes = <<>> THEN [st |-> "ok", val |-> <<>>]
    ELSE LET b    == Head(bytes)
             rest == decode_sjis(Tail(bytes))
         IN  IF b <= 128 /\ rest.st = "ok"
             THEN [st |-> "ok", val |-> <<b>> \o rest.val]
             ELSE IF b >= 161 /\ b <= 223 /\ rest.st = "ok"
             THEN [st |-> "ok", val |-> <<65377 + (b - 161)>> \o rest.val]
             ELSE [st |-> "error", val |-> <<>>]

\* c_string: take_until!("\0"), decode_sjis, tag!("\0"); without a NUL the
\* streaming parser reports Incomplete
c_string(input) ==
    LET nuls == {k \in 1..Len(input) : input[k] = 0}
    IN  IF nuls = {} THEN [st |-> "error", val |-> <<>>, rest |-> input]
        ELSE LET at  == CHOOSE k \in nuls : \A j \in nuls : k <= j
                 dec == decode_sjis(SubSeq(input, 1, at - 1))
             IN  [st |-> dec.st, val |-> dec.val, rest |-> Drop(input, at)]

\* parser::archive_entry
archive_entry(input) ==
    IF Len(input) < FilenameField + 4 * U32ByteSize
    THEN [st |-> "error", val |-> NoEntry, rest |-> input]
    ELSE LET filename == c_string(SubSeq(input, 1, FilenameField))
             ints     == Drop(input, FilenameField)
         IN  IF filename.st # "ok"
             THEN [st |-> "error", val |-> NoEntry, rest |-> input]
             ELSE [st |-> "ok",
                   val |-> [filename |-> filename.val,
                            offset   |-> ReadU32(ints),
                            arcsize  |-> ReadU32(Drop(ints, 4)),
                            filesize |-> ReadU32(Drop(ints, 8)),
                            unk1     |-> ReadU32(Drop(ints, 12))],
                   rest |-> Drop(ints, 16)]

NoData == [entries |-> 0, orgsize |-> 0, arcsize |-> 0, data |-> <<>>]

\* parser::archive_data; `arcsize - 0x10` with arcsize < 0x10 overflows: a
\* panic in a build with overflow checks, otherwise a length no input has
archive_data(input, checked) ==
    IF Len(input) < Len(PackTag) + 3 * U32ByteSize
        \/ SubSeq(input, 1, Len(PackTag)) # PackTag
    THEN [st |-> "error", val |-> NoData, rest |-> input]
    ELSE LET entries == ReadU32(Drop(input, 4))
             orgsize == ReadU32(Drop(input, 8))
             arcsize == ReadU32(Drop(input, 12))
             body    == Drop(input, 16)
         IN  IF arcsize < 16
             THEN [st |-> IF checked THEN "panic" ELSE "error",
                   val |-> NoData, rest |-> input]
             ELSE IF Len(body) < arcsize - 16
             THEN [st |-> "error", val |-> NoData, rest |-> input]
             ELSE [st |-> "ok",
                   val |-> [entries |-> entries, orgsize |-> orgsize,
                            arcsize |-> arcsize,
                            data |-> SubSeq(body, 1, arcsize - 16)],
                   rest |-> Drop(body, arcsize - 16)]

\* count!(archive_entry, n)
RECURSIVE CountEntries(_, _)
CountEntries(input, n) ==
    IF n = 0 THEN [st |-> "ok", val |-> <<>>, rest |-> input]
    ELSE LET first == archive_entry(input)
             more  == CountEntries(first.rest, n - 1)
         IN  IF first.st # "ok"
             THEN [st |-> first.st, val |-> <<>>, rest |-> input]
             ELSE [st |-> more.st, val |-> <<first.val>> \o more.val,
                   rest |-> more.rest]

\* count!(archive_data, n)
RECURSIVE CountDatas(_, _, _)
CountDatas(input, n, checked) ==
    IF n = 0 THEN [st |-> "ok", val |-> <<>>, rest |-> input]
    ELSE LET first == archive_data(input, checked)
             more  == CountDatas(first.rest, n - 1, checked)
         IN  IF first.st # "ok"
             THEN [st |-> first.st, val |-> <<>>, rest |-> input]
             ELSE [st |-> more.st, val |-> <<first.val>> \o more.val,
                   rest |-> more.rest]

\* parser::archive
archive(input, checked) ==
    LET headLen == Len(PaclTag) + UnkSize + U32ByteSize + UnkSize
        unk1    == SubSeq(input, 5, 4 + UnkSize)
        count   == ReadU32(Drop(input, 4 + UnkSize))
        unk2    == SubSeq(input, 9 + UnkSize, headLen)
        entries == CountEntries(Drop(input, headLen), count)
        datas   == CountDatas(entries.rest, Len(entries.val), checked)
    IN  IF Len(input) < headLen \/ SubSeq(input, 1, 4) # PaclTag
        THEN [st |-> "error", val |-> NoArchive]
        ELSE IF entries.st # "ok" THEN [st |-> "error", val |-> NoArchive]
        ELSE IF datas.st # "ok" THEN [st |-> datas.st, val |-> NoArchive]
        ELSE IF datas.rest # <<>> THEN [st |-> "error", val |-> NoArchive]
        ELSE [st |-> "ok",
              val |-> [unk1 |-> unk1, unk2 |-> unk2,
                       entries |-> entries.val, data |-> datas.val]]
MaxEntries == 2

\* "A", "SEEN001.TXT", 16 and 17 times "A", U+00E9, "A\0B", ""
ArNames ==
    {<<65>>, <<83, 69, 69, 78, 48, 48, 49, 46, 84, 88, 84>>,
     [k \in 1..FilenameField |-> 65], [k \in 1..(FilenameField + 1) |-> 65],
     <<233>>, <<65, 0, 66>>, <<>>}

\* the data of S6 (100 and 50 bytes) and shorter ones
ArDatas == {<<>>, <<7>>, [k \in 1..9 |-> k], Zeros(100), Zeros(50)}

\* the names and data add_entry is called with
ArAddNames == {<<65>>, [k \in 1..(FilenameField + 1) |-> 65]}

\* 16-byte filename fields of archive files: "A" zero-padded, "A" with
\* bytes left after the terminator, 16 bytes without terminator, the
\* Shift_JIS byte 0xC3
ArFields ==
    {<<65>> \o Zeros(15), <<65, 0, 66>> \o Zeros(13),
     [k \in 1..FilenameField |-> 65], <<195>> \o Zeros(15)}

\* blobs of archive files: arcsize and data
ArBlobs ==
    {[arcsize |-> 16, data |-> <<>>], [arcsize |-> 18, data |-> <<255, 7>>],
     [arcsize |-> 5, data |-> <<>>]}

ArUnks == {Zeros(UnkSize), [k \in 1..UnkSize |-> k]}

ArItems == {[field |-> f, blob |-> b] : f \in ArFields, b \in ArBlobs}

RECURSIVE RawBlobs(_)
RawBlobs(items) ==
    IF items = <<>> THEN <<>>
    ELSE LET blob == Head(items).blob
         IN  PackTag \o WriteU32(0) \o WriteU32(Len(blob.data))
                \o WriteU32(blob.arcsize) \o blob.data
                \o RawBlobs(Tail(items))

\* the directory entries of a file; offset is where the blob starts, or 0
\* in a file whose offsets are stale
RECURSIVE RawEntries(_, _, _)
RawEntries(items, offset, stale) ==
    IF items = <<>> THEN <<>>
    ELSE LET blob == Head(items).blob
         IN  Head(items).field \o WriteU32(IF stale THEN 0 ELSE offset)
                \o WriteU32(blob.arcsize) \o WriteU32(Len(blob.data))
                \o WriteU32(1)
                \o RawEntries(Tail(items), offset + 16 + Len(blob.data),
                              stale)

RawArchive(unk, items, stale) ==
    PaclTag \o unk \o WriteU32(Len(items)) \o unk
        \o RawEntries(items, 32 + 32 * Len(items), stale)
        \o RawBlobs(items)

\* archive files, and files cut short or with a byte left over
ArInputs ==
    LET files == {RawArchive(unk, items, stale) :
                    unk \in ArUnks, stale \in BOOLEAN,
                    items \in SeqsUpTo(ArItems, MaxEntries)}
        plain == {RawArchive(Zeros(UnkSize), items, FALSE) :
                    items \in SeqsUpTo(ArItems, MaxEntries)}
    IN  files \cup {SubSeq(f, 1, Len(f) - 1) : f \in plain}
              \cup {Append(f, 0) : f \in plain}

ArSampleEntry ==
    [filename |-> <<65>>, offset |-> 0, arcsize |-> 17, filesize |-> 1,
     unk1 |-> 1]

ArSampleData ==
    [entries |-> 0, orgsize |-> 1, arcsize |-> 17, data |-> <<255>>]

\* Archives built through the public fields, entries and data of any
\* lengths
ArStructs ==
    {[unk1 |-> Zeros(UnkSize), unk2 |-> Zeros(UnkSize),
      entries |-> [k \in 1..n |-> ArSampleEntry],
      data |-> [k \in 1..m |-> ArSampleData]] :
        n \in 0..MaxEntries, m \in 0..MaxEntries}

\* directory entries written alone
ArEntries ==
    {[filename |-> name, offset |-> 64, arcsize |-> 17, filesize |-> 1,
      unk1 |-> 1] : name \in ArNames}

ArStart ==
    /\ arfin = FALSE
    /\ arout = <<>>
    /\ argiven = <<>>
    /\ arpre = NoArchive
    /\ arback = NoEntry
    /\ \/ /\ arpc = "new"
          /\ arsrc = "new"
          /\ ar = ArchiveNew
          /\ arbytes = <<>>
          /\ arentry = NoEntry
       \/ /\ arpc = "bytes"
          /\ arsrc = "bytes"
          /\ ar = NoArchive
          /\ arbytes \in ArInputs
          /\ arentry = NoEntry
       \/ /\ arpc = "struct"
          /\ arsrc = "struct"
          /\ ar \in ArStructs
          /\ arbytes = <<>>
          /\ arentry = NoEntry
       \/ /\ arpc = "entry"
          /\ arsrc = "entry"
          /\ ar = NoArchive
          /\ arbytes = <<>>
          /\ arentry \in ArEntries

ArFrame ==
    UNCHANGED <<valVars, lzVars, labVars, opVars, cdVars, txVars, scVars>>

\* Archive::add_entry
AddEntry ==
    /\ arsrc = "new"
    /\ arpc \in {"new", "finalized"}
    /\ Len(ar.entries) < MaxEntries
    /\ \E filename \in ArAddNames, data \in ArDatas :
          /\ ar' = add_entry(ar, filename, data)
          /\ argiven' = Append(argiven, [filename |-> filename, data |-> data])
    /\ arpc' = "new"
    /\ arfin' = FALSE
    /\ UNCHANGED <<arsrc, arbytes, arentry, arback, arout, arpre>>
    /\ ArFrame

\* Archive::finalize
Finalize ==
    /\ arpc \in {"new", "parsed", "struct", "finalized"}
    /\ LET r == finalize(ar)
       IN  /\ ar' = r.archive
           /\ arpc' = IF r.st = "ok" THEN "finalized" ELSE r.st
           /\ arfin' = (r.st = "ok")
    /\ arpre' = ar
    /\ UNCHANGED <<arsrc, arbytes, arentry, arback, arout, argiven>>
    /\ ArFrame

\* load_bytes: parser::archive, in a build with or without overflow checks
ParseArchive ==
    /\ arpc = "bytes"
    /\ \E checked \in BOOLEAN :
          LET r == archive(arbytes, checked)
          IN  /\ arpc' = IF r.st = "ok" THEN "parsed"
                         ELSE IF r.st = "panic" THEN "panic"
                         ELSE "parse_error"
              /\ ar' = r.val
    /\ UNCHANGED <<arsrc, arfin, arbytes, arentry, arback, arout, argiven,
                   arpre>>
    /\ ArFrame

\* Writeable for Archive::write into an empty sink
WriteArchive ==
    /\ arpc \in {"new", "parsed", "struct", "finalized"}
    /\ LET r == ArchiveWrite(ar)
       IN  /\ arpc' = IF r.st = "ok" THEN "written" ELSE "write_error"
           /\ arout' = r.out
    /\ UNCHANGED <<arsrc, arfin, arbytes, ar, arentry, arback, argiven, arpre>>
    /\ ArFrame

\* Writeable for ArchiveEntry::write into an empty sink
WriteEntry ==
    /\ arpc = "entry"
    /\ LET r == ArchiveEntryWrite(arentry)
       IN  /\ arpc' = IF r.st = "ok" THEN "entry_written" ELSE "entry_error"
           /\ arout' = r.out
    /\ UNCHANGED <<arsrc, arfin, arbytes, ar, arentry, arback, argiven, arpre>>
    /\ ArFrame

\* parser::archive_entry over the bytes just written
ParseEntry ==
    /\ arpc = "entry_written"
    /\ LET r == archive_entry(arout)
       IN  /\ arpc' = IF r.st = "ok" THEN "entry_parsed"
                      ELSE "entry_parse_error"
           /\ arback' = r.val
    /\ UNCHANGED <<arsrc, arfin, arbytes, ar, arentry, arout, argiven, arpre>>
    /\ ArFrame

InitAr ==
    ArStart /\ IdleVal /\ IdleLz /\ IdleLab /\ IdleOp /\ IdleCond /\ IdleText
        /\ IdleScene

NextAr ==
    \/ AddEntry
    \/ Finalize
    \/ ParseArchive
    \/ WriteArchive
    \/ WriteEntry
    \/ ParseEntry

SpecAr == InitAr /\ [][NextAr]_vars
(***************************************************************************)
(* Archive: properties                                                     *)
(***************************************************************************)
\* 16 + compressed length, summed over the blobs before blob i
RECURSIVE BlobBytesBefore(_, _)
BlobBytesBefore(datas, i) ==
    IF i <= 1 THEN 0
    ELSE BlobBytesBefore(datas, i - 1) + 16 + Len(datas[i - 1].data)

\* C11: after add_entry calls and finalize, entries[i].offset is the
\* directory size 4 + 0x0C + 4 + 0x0C + 32 * N plus the sum of
\* 16 + compressed length over the blobs before i; with entries of 100 and
\* 50 bytes the second offset is directory size + 0x10 + 113.
C11_FinalizeOffsets ==
    (arsrc = "new" /\ arfin) =>
        /\ \A i \in 1..Len(ar.entries) :
              ar.entries[i].offset =
                  4 + 12 + 4 + 12 + 32 * Len(ar.entries)
                    + BlobBytesBefore(ar.data, i)
        /\ (/\ Len(ar.entries) = 2
            /\ ar.entries[1].filesize = 100
            /\ ar.entries[2].filesize = 50)
              => ar.entries[2].offset = 96 + 16 + 113

C11_Witness ==
    /\ arsrc = "new"
    /\ arpc = "finalized"
    /\ arfin
    /\ Len(ar.entries) = 2
    /\ ar.entries[1].filesize = 100
    /\ ar.entries[2].filesize = 50
    /\ ar.entries[1].offset = 96
    /\ ar.entries[2].offset = 225

\* C12: for every byte sequence the archive parser accepts and whose stored
\* offsets equal the recomputed ones, parse, finalize, write gives back the
\* input bytes.
C12_ArchiveRoundTrip ==
    (/\ arsrc = "bytes"
     /\ arfin
     /\ arpc \in {"written", "write_error"}
     /\ \A i \in 1..Len(ar.entries) :
           archive(arbytes, TRUE).val.entries[i].offset
               = ar.entries[i].offset)
        => (arpc = "written" /\ arout = arbytes)

\* C13: writing an Archive whose entries and data differ in length fails,
\* and nothing has been emitted to the sink.
C13_InconsistentArchive ==
    (arpc \in {"written", "write_error"} /\ Len(ar.entries) # Len(ar.data))
        => (arpc = "write_error" /\ arout = <<>>)

C13_Witness ==
    /\ arpc = "write_error"
    /\ Len(ar.entries) = 2
    /\ Len(ar.data) = 1
    /\ arout = <<>>

\* C14: ArchiveEntry::write emits a 16-byte filename field that ends with
\* 0x00, it fails exactly when name and terminator do not fit into 16
\* bytes, and every entry it accepts is parsed back by archive_entry with
\* the same filename.
C14_FilenameField ==
    /\ arpc = "entry_error" => Len(AsBytes(arentry.filename)) + 1 > 16
    /\ arpc \in {"entry_written", "entry_parsed", "entry_parse_error"} =>
          /\ Len(arout) = 32
          /\ arout[16] = 0
          /\ Len(AsBytes(arentry.filename)) + 1 <= 16
    /\ arpc # "entry_parse_error"
    /\ arpc = "entry_parsed" => arback.filename = arentry.filename

\* C29: after any sequence of add_entry and finalize calls on Archive::new()
\* there are as many entries as blobs, one per add_entry call and in the
\* order of the calls; entries[i].arcsize = data[i].arcsize = 16 + the
\* length of data[i].data, and entries[i].filesize = data[i].orgsize = the
\* length of the bytes given to the i-th call.
C29_EntriesMatchData ==
    arsrc = "new" =>
        /\ arpc \in {"new", "finalized", "written", "write_error"}
        /\ Len(ar.entries) = Len(argiven)
        /\ Len(ar.data) = Len(argiven)
        /\ \A i \in 1..Len(argiven) :
              /\ ar.entries[i].filename = argiven[i].filename
              /\ ar.entries[i].arcsize = 16 + Len(ar.data[i].data)
              /\ ar.data[i].arcsize = 16 + Len(ar.data[i].data)
              /\ ar.entries[i].filesize = Len(argiven[i].data)
              /\ ar.data[i].orgsize = Len(argiven[i].data)

\* two calls with data of different lengths, a finalize between them and
\* one after them
C29_Witness ==
    /\ arsrc = "new"
    /\ arpc = "finalized"
    /\ Len(argiven) = 2
    /\ Len(arpre.entries) = 2
    /\ arpre.entries[1].offset = 64
    /\ Len(argiven[1].data) = 9
    /\ Len(argiven[2].data) = 100
    /\ ar.entries[2].filesize = 100
    /\ ar.data[1].arcsize = 16 + 9 + 2

\* the entry with its offset field blanked
NoOffset(e) == [e EXCEPT !.offset = 0]

\* C30: finalize changes the offset field of the entries and nothing else
\* (filenames, arcsize, filesize, flags, the two 0x0C blocks, the blobs and
\* the order stay); the offsets it assigns are strictly increasing; a
\* second finalize changes nothing.
C30_FinalizeFrame ==
    arpc = "finalized" =>
        /\ ar.unk1 = arpre.unk1
        /\ ar.unk2 = arpre.unk2
        /\ ar.data = arpre.data
        /\ Len(ar.entries) = Len(arpre.entries)
        /\ \A i \in 1..Len(ar.entries) :
              NoOffset(ar.entries[i]) = NoOffset(arpre.entries[i])
        /\ \A i \in 1..(Len(ar.entries) - 1) :
              ar.entries[i].offset < ar.entries[i + 1].offset
        /\ finalize(ar) = [st |-> "ok", archive |-> ar]
        /\ finalize(arpre) = [st |-> "ok", archive |-> ar]

\* finalize has run twice in a row on an archive of two entries, the second
\* with empty data: the second run found the archive as the first one left
\* it
C30_Witness ==
    /\ arsrc = "new"
    /\ arpc = "finalized"
    /\ Len(ar.entries) = 2
    /\ ar.entries[2].filesize = 0
    /\ arpre = ar
    /\ ar.entries[1].offset = 96
    /\ ar.entries[2].offset > 96

(***************************************************************************)
(* parser.rs scene_conditions, write.rs Writeable for Condition / Ret      *)
(***************************************************************************)
\* the tags of scene_conditions without operands, as <<tag, variant>>
CondPlainArms ==
    <<<<38, "And">>, <<39, "Or">>, <<40, "IncDepth">>, <<41, "DecDepth">>>>

\* the inner match of the arm 0x36..=0x55, as <<tag, variant>>
CondCompareArms ==
    <<<<54, "BitNotEq">>, <<55, "BitEq">>, <<56, "NotEq">>, <<57, "Eq">>,
      <<58, "FlagNotEqConst">>, <<59, "FlagEqConst">>,
      <<65, "FlagAndConst">>, <<66, "FlagAndConst2">>,
      <<67, "FlagXorConst">>, <<68, "FlagGtConst">>, <<69, "FlagLtConst">>,
      <<70, "FlagGeqConst">>, <<71, "FlagLeqConst">>, <<72, "FlagNotEq">>,
      <<73, "FlagEq">>, <<79, "FlagAnd">>, <<80, "FlagAnd2">>,
      <<81, "FlagXor">>, <<82, "FlagGt">>, <<83, "FlagLt">>,
      <<84, "FlagGeq">>, <<85, "FlagLeq">>>>

\* the arm 0x36..=0x55 of the outer match
CompareFirst == 54

CompareLast == 85

\* the tag of Condition::Ret
RetTag == 88

\* the match on the attribute byte of a Ret, as <<attr, variant, has a Val>>
RetArms ==
    <<<<32, "Color", TRUE>>, <<33, "Choice", FALSE>>,
      <<34, "DisabledChoice", TRUE>>>>

\* Writeable for Condition::write: the tag of every variant
CondWriteArms ==
    <<<<"And", 38>>, <<"Or", 39>>, <<"IncDepth", 40>>, <<"DecDepth", 41>>,
      <<"BitNotEq", 54>>, <<"BitEq", 55>>, <<"NotEq", 56>>, <<"Eq", 57>>,
      <<"FlagNotEqConst", 58>>, <<"FlagEqConst", 59>>,
      <<"FlagAndConst", 65>>, <<"FlagAndConst2", 66>>,
      <<"FlagXorConst", 67>>, <<"FlagGtConst", 68>>, <<"FlagLtConst", 69>>,
      <<"FlagGeqConst", 70>>, <<"FlagLeqConst", 71>>, <<"FlagNotEq", 72>>,
      <<"FlagEq", 73>>, <<"FlagAnd", 79>>, <<"FlagAnd2", 80>>,
      <<"FlagXor", 81>>, <<"FlagGt", 82>>, <<"FlagLt", 83>>,
      <<"FlagGeq", 84>>, <<"FlagLeq", 85>>, <<"Ret", 88>>>>

\* Writeable for Ret::write: the attribute byte of every variant
RetWriteArms == <<<<"Color", 32>>, <<"Choice", 33>>, <<"DisabledChoice", 34>>>>

\* a Condition: the variant, its Val operands, and the variant of its Ret
Cond(c, vals, ret) == [c |-> c, vals |-> vals, ret |-> ret]

\* the outcome of one pass through the body of `while !finish`:
\*   st: "ok" (cond pushed), "error" (Err returned), "panic"
\*   tag / attr: the tag byte and the Ret attribute byte read (-1: none)
\*   wide: a Val was read from more bytes than Val::write gives it
CondStep(st, cond, rest, tag, attr) ==
    [st |-> st, cond |-> cond, rest |-> rest, tag |-> tag, attr |-> attr,
     wide |-> FALSE]

\* scene_value took more bytes than the minimum width of the value
Wide(inp, v) ==
    v.st = "ok" /\ Len(inp) - Len(v.rest) # Len(ValWrite(v.val))

NoCond == Cond("none", <<>>, "none")

\* the arm 0x36..=0x55: two scene_value, then the inner match
CompareBody(num, inp) ==
    LET v1 == scene_value(inp)
        v2 == scene_value(v1.rest)
        variant == SwitchArm(CondCompareArms, num)
    IN  IF v1.st # "ok" THEN CondStep("panic", NoCond, inp, num, -1)
        ELSE IF v2.st # "ok" THEN CondStep("panic", NoCond, inp, num, -1)
        ELSE IF variant = "none"
        THEN CondStep("panic", NoCond, inp, num, -1)
        ELSE [CondStep("ok", Cond(variant, <<v1.val, v2.val>>, "none"),
                       v2.rest, num, -1)
                EXCEPT !.wide = Wide(inp, v1) \/ Wide(v1.rest, v2)]

\* the arm 0x58: le_u8, then the match on the attribute
RetBody(num, inp) ==
    IF inp = <<>> THEN CondStep("error", NoCond, inp, num, -1)
    ELSE LET attr == Head(inp)
             hits == {k \in 1..Len(RetArms) : RetArms[k][1] = attr}
         IN  IF hits = {} THEN CondStep("panic", NoCond, inp, num, attr)
             ELSE LET arm == RetArms[CHOOSE k \in hits : TRUE]
                      v == scene_value(Tail(inp))
                  IN  IF ~arm[3]
                      THEN CondStep("ok", Cond("Ret", <<>>, arm[2]),
                                    Tail(inp), num, attr)
                      ELSE IF v.st # "ok"
                      THEN CondStep("panic", NoCond, inp, num, attr)
                      ELSE [CondStep("ok", Cond("Ret", <<v.val>>, arm[2]),
                                     v.rest, num, attr)
                              EXCEPT !.wide = Wide(Tail(inp), v)]

\* the body of `while !finish` up to conditions.push(cond)
ConditionBody(inp) ==
    IF inp = <<>> THEN CondStep("error", NoCond, inp, -1, -1)
    ELSE LET num == Head(inp)
             plain == SwitchArm(CondPlainArms, num)
         IN  IF plain # "none"
             THEN CondStep("ok", Cond(plain, <<>>, "none"), Tail(inp), num, -1)
             ELSE IF num >= CompareFirst /\ num <= CompareLast
             THEN CompareBody(num, Tail(inp))
             ELSE IF num = RetTag THEN RetBody(num, Tail(inp))
             ELSE CondStep("error", NoCond, Tail(inp), num, -1)

\* depth after cond
DepthAfter(depth, cond) ==
    CASE cond.c = "IncDepth" -> depth + 1
      [] cond.c = "DecDepth" -> depth - 1
      [] OTHER -> depth

\* a finish test that lets the depth reach 0 without stopping
FinishedBelowZero(depth, cond) == cond.c = "DecDepth" /\ depth - 1 < 0

\* finish = true: a 0x29 after which depth <= 0
Finished(depth, cond) == cond.c = "DecDepth" /\ depth - 1 <= 0

\* Writeable for Ret::write
RetWrite(cond) ==
    <<WriteTag(RetWriteArms, cond.ret)>>
        \o (IF cond.vals = <<>> THEN <<>> ELSE ValWrite(cond.vals[1]))

\* Writeable for Condition::write
CondWrite(cond) ==
    <<WriteTag(CondWriteArms, cond.c)>>
        \o (IF cond.c = "Ret" THEN RetWrite(cond)
            ELSE IF cond.vals = <<>> THEN <<>>
            ELSE ValWrite(cond.vals[1]) \o ValWrite(cond.vals[2]))

\* Writeable for Vec<Condition>::write
RECURSIVE ConditionsWrite(_)
ConditionsWrite(conds) ==
    IF conds = <<>> THEN <<>>
    ELSE CondWrite(Head(conds)) \o ConditionsWrite(Tail(conds))

MaxItems == 4

\* the pieces the inputs of scene_conditions are put together from: the
\* plain tags, comparisons with operands of minimum and of larger width,
\* unassigned tags inside and outside 0x36..=0x55, Ret with every kind of
\* attribute, a cut-off comparison
CondItems ==
    {<<38>>, <<40>>, <<41>>, <<54, 16, 17>>, <<85, 32, 0, 145>>,
     <<60, 16, 16>>, <<74, 16, 16>>, <<53>>, <<86>>,
     <<88, 33>>, <<88, 34, 16>>, <<88, 35, 16>>, <<54, 16, 32>>}

CondStart ==
    /\ cdpc = "input"
    /\ cdinput = <<>>
    /\ cdn = 0
    /\ cdinp = <<>>
    /\ cddepth = 0
    /\ cdconds = <<>>
    /\ cdtag = -1
    /\ cdattr = -1
    /\ cdwide = FALSE
    /\ cdout = <<>>

CondFrame ==
    UNCHANGED <<valVars, lzVars, labVars, opVars, arVars, txVars, scVars>>

\* one more piece of the bytes that follow the tag of a Condition opcode
ConditionBytes ==
    /\ cdpc = "input"
    /\ cdn < MaxItems
    /\ \E item \in CondItems : cdinput' = cdinput \o item
    /\ cdn' = cdn + 1
    /\ UNCHANGED <<cdpc, cdinp, cddepth, cdconds, cdtag, cdattr, cdwide,
                   cdout>>
    /\ CondFrame

\* scene_conditions: entry, depth = 0, conditions = vec![], inp = input
SceneConditions ==
    /\ cdpc = "input"
    /\ cdpc' = "loop"
    /\ cdinp' = cdinput
    /\ UNCHANGED <<cdinput, cdn, cddepth, cdconds, cdtag, cdattr, cdwide,
                   cdout>>
    /\ CondFrame

\* scene_conditions: one pass through `while !finish`
ConditionLoop ==
    /\ cdpc = "loop"
    /\ LET r == ConditionBody(cdinp)
       IN  /\ cdtag' = r.tag
           /\ cdattr' = r.attr
           /\ IF r.st = "ok"
              THEN /\ cdinp' = r.rest
                   /\ cdconds' = Append(cdconds, r.cond)
                   /\ cddepth' = DepthAfter(cddepth, r.cond)
                   /\ cdwide' = (cdwide \/ r.wide)
                   /\ cdpc' = IF Finished(cddepth, r.cond) THEN "ok" ELSE "loop"
              ELSE /\ cdpc' = r.st
                   /\ UNCHANGED <<cdinp, cdconds, cddepth, cdwide>>
    /\ UNCHANGED <<cdinput, cdn, cdout>>
    /\ CondFrame

\* Writeable for Vec<Condition>::write of the returned conditions
WriteConditions ==
    /\ cdpc = "ok"
    /\ cdpc' = "written"
    /\ cdout' = ConditionsWrite(cdconds)
    /\ UNCHANGED <<cdinput, cdn, cdinp, cddepth, cdconds, cdtag, cdattr,
                   cdwide>>
    /\ CondFrame

InitCond ==
    CondStart /\ IdleVal /\ IdleLz /\ IdleLab /\ IdleOp /\ IdleAr /\ IdleText
        /\ IdleScene

NextCond ==
    ConditionBytes \/ SceneConditions \/ ConditionLoop \/ WriteConditions

SpecCond == InitCond /\ [][NextCond]_vars

(***************************************************************************)
(* scene_conditions: properties                                            *)
(***************************************************************************)
\* the tags the condition grammar assigns
AssignedCondTags ==
    (38..41) \cup (54..59) \cup (65..73) \cup (79..85) \cup {88}

\* C19: every tag byte outside the assigned ones (0x26..0x29, the comparison
\* tags, 0x58), the unassigned bytes 0x3C..0x40 and 0x4A..0x4E included, and
\* every Ret attribute byte other than 0x20, 0x21, 0x22 makes
\* scene_conditions return the error; it neither crashes nor goes on.
C19_UnknownTagError ==
    /\ (cdtag # -1 /\ cdtag \notin AssignedCondTags) => cdpc = "error"
    /\ (cdtag = 88 /\ cdattr # -1 /\ cdattr \notin {32, 33, 34}) =>
          cdpc = "error"

\* IncDepth minus DecDepth among the first k conditions
DepthOf(conds, k) ==
    Cardinality({j \in 1..k : conds[j].c = "IncDepth"})
        - Cardinality({j \in 1..k : conds[j].c = "DecDepth"})

\* condition k is a DecDepth after which the depth is <= 0
StopsAt(conds, k) == conds[k].c = "DecDepth" /\ DepthOf(conds, k) <= 0

\* the bytes scene_conditions has consumed
Consumed == SubSeq(cdinput, 1, Len(cdinput) - Len(cdinp))

\* depth counts 0x28 minus 0x29 from 0; the loop goes on exactly while no
\* 0x29 has brought the depth to <= 0, and returns at the first one that
\* does, with inp right behind that 0x29
DepthDiscipline ==
    /\ cdpc \in {"loop", "ok", "error", "panic", "written"} =>
          /\ cddepth = DepthOf(cdconds, Len(cdconds))
          /\ cdinput = Consumed \o cdinp
          /\ \A k \in 1..(Len(cdconds) - 1) : ~StopsAt(cdconds, k)
    /\ (cdpc \in {"loop", "error", "panic"} /\ cdconds # <<>>) =>
          ~StopsAt(cdconds, Len(cdconds))
    /\ cdpc \in {"ok", "written"} =>
          /\ cdconds # <<>>
          /\ StopsAt(cdconds, Len(cdconds))
          /\ Consumed # <<>>
          /\ Consumed[Len(Consumed)] = 41

PointerTag == 64

\* SceneText::Pointer(val) and SceneText::Literal(s); a String is the
\* sequence of its code points
Pointer(val) == [t |-> "Pointer", val |-> val, str |-> <<>>]

Literal(str) == [t |-> "Literal", val |-> NoVal, str |-> str]

NoText == [t |-> "none", val |-> NoVal, str |-> <<>>]

\* scene_text: input[0] on an empty slice panics, as scene_value does on a
\* slice shorter than its width field says
scene_text(input) ==
    IF input = <<>> THEN [st |-> "panic", val |-> NoText, rest |-> input]
    ELSE IF input[1] = PointerTag
    THEN LET v == scene_value(input)
         IN  IF v.st # "ok"
             THEN [st |-> "panic", val |-> NoText, rest |-> input]
             ELSE [st |-> "ok", val |-> Pointer(v.val), rest |-> v.rest]
    ELSE LET s == c_string(input)
         IN  IF s.st # "ok"
             THEN [st |-> "error", val |-> NoText, rest |-> input]
             ELSE [st |-> "ok", val |-> Literal(s.val), rest |-> s.rest]

\* SHIFT_JIS.encode over the code points the strings hold: ASCII maps to
\* itself, the half-width katakana U+FF61.. to 0xA1..
RECURSIVE EncodeSjis(_)
EncodeSjis(str) ==
    IF str = <<>> THEN <<>>
    ELSE (IF Head(str) <= 128 THEN <<Head(str)>>
          ELSE <<161 + (Head(str) - 65377)>>) \o EncodeSjis(Tail(str))

\* Writeable for &str::byte_size
StrByteSize(str) == Len(EncodeSjis(str)) + 1

\* Writeable for &str::write
StrWrite(str) == EncodeSjis(str) \o <<0>>

\* Writeable for SceneText::byte_size
SceneTextByteSize(text) ==
    IF text.t = "Pointer" THEN 1 + ValByteSize(text.val)
    ELSE StrByteSize(text.str)

\* a write of Pointer that leaves out the '@'
SceneTextWriteNoTag(text) ==
    IF text.t = "Pointer" THEN ValWrite(text.val) ELSE StrWrite(text.str)

\* Writeable for SceneText::write
SceneTextWrite(text) ==
    IF text.t = "Pointer" THEN <<PointerTag>> \o ValWrite(text.val)
    ELSE StrWrite(text.str)

\* formatted_text_cmd: switch!(le_u8, ...) with the number of Vals of the arm
FormattedTextCmdArms ==
    <<<<1, "Integer", 1>>, <<2, "IntegerZeroPadded", 2>>,
      <<3, "TextPointer", 1>>, <<17, "Unknown1", 1>>, <<19, "Unknown2", 0>>>>

\* Writeable for FormattedTextCmd::write: the tag written per variant
FormattedTextCmdWriteArms ==
    <<<<"Integer", 1>>, <<"IntegerZeroPadded", 2>>, <<"TextPointer", 3>>,
      <<"Unknown1", 17>>, <<"Unknown2", 19>>>>

\* scene_formatted_text_entry: switch!(le_u8, ...)
EntryArms ==
    <<<<16, "Command">>, <<18, "Unknown">>, <<40, "Condition">>,
      <<253, "TextPointer">>, <<254, "TextHankaku">>, <<255, "TextZenkaku">>>>

\* Writeable for SceneFormattedTextEntry::write: the tag written per variant
EntryWriteArms ==
    <<<<"Command", 16>>, <<"Unknown", 18>>, <<"Condition", 40>>,
      <<"TextPointer", 253>>, <<"TextHankaku", 254>>, <<"TextZenkaku", 255>>>>

\* a SceneFormattedTextEntry: cmd and vals are the FormattedTextCmd variant
\* and its Vals (vals also holds the Val of TextPointer)
Entry(t, cmd, vals, conds, str) ==
    [t |-> t, cmd |-> cmd, vals |-> vals, conds |-> conds, str |-> str]

NoTextEntry == Entry("none", "none", <<>>, <<>>, <<>>)

\* the outcome of a parser of entries: "ok", "error" (Err::Error or
\* Err::Incomplete returned to the caller) or "panic"
EntryStep(st, entry, rest) == [st |-> st, entry |-> entry, rest |-> rest]

\* scene_conditions from a given depth: the passes through `while !finish`
RECURSIVE SceneConditionsFrom(_, _, _)
SceneConditionsFrom(inp, depth, conds) ==
    LET r == ConditionBody(inp)
    IN  IF r.st # "ok" THEN [st |-> r.st, conds |-> conds, rest |-> inp]
        ELSE IF Finished(depth, r.cond)
        THEN [st |-> "ok", conds |-> Append(conds, r.cond), rest |-> r.rest]
        ELSE SceneConditionsFrom(r.rest, DepthAfter(depth, r.cond),
                                 Append(conds, r.cond))

\* scene_conditions: let mut depth = 0
scene_conditions(input) == SceneConditionsFrom(input, 0, <<>>)

\* formatted_text_cmd
formatted_text_cmd(input) ==
    IF input = <<>> THEN EntryStep("error", NoTextEntry, input)
    ELSE LET hits == {k \in 1..Len(FormattedTextCmdArms) :
                         FormattedTextCmdArms[k][1] = Head(input)}
         IN  IF hits = {} THEN EntryStep("error", NoTextEntry, input)
             ELSE LET arm == FormattedTextCmdArms[CHOOSE k \in hits : TRUE]
                      v1 == scene_value(Tail(input))
                      v2 == scene_value(v1.rest)
                  IN  IF arm[3] = 0
                      THEN EntryStep("ok",
                               Entry("Command", arm[2], <<>>, <<>>, <<>>),
                               Tail(input))
                      ELSE IF v1.st # "ok"
                      THEN EntryStep("panic", NoTextEntry, input)
                      ELSE IF arm[3] = 1
                      THEN EntryStep("ok",
                               Entry("Command", arm[2], <<v1.val>>, <<>>, <<>>),
                               v1.rest)
                      ELSE IF v2.st # "ok"
                      THEN EntryStep("panic", NoTextEntry, input)
                      ELSE EntryStep("ok",
                               Entry("Command", arm[2], <<v1.val, v2.val>>,
                                     <<>>, <<>>),
                               v2.rest)

\* scene_formatted_text_entry
scene_formatted_text_entry(input) ==
    IF input = <<>> THEN EntryStep("error", NoTextEntry, input)
    ELSE LET variant == SwitchArm(EntryArms, Head(input))
             inp == Tail(input)
             c == scene_conditions(inp)
             v == scene_value(inp)
             s == c_string(inp)
         IN  CASE variant = "Command" -> formatted_text_cmd(inp)
               [] variant = "Unknown" ->
                    EntryStep("ok", Entry("Unknown", "none", <<>>, <<>>, <<>>),
                              inp)
               [] variant = "Condition" ->
                    IF c.st # "ok" THEN EntryStep(c.st, NoTextEntry, input)
                    ELSE EntryStep("ok",
                             Entry("Condition", "none", <<>>, c.conds, <<>>),
                             c.rest)
               [] variant = "TextPointer" ->
                    IF v.st # "ok" THEN EntryStep("panic", NoTextEntry, input)
                    ELSE EntryStep("ok",
                             Entry("TextPointer", "none", <<v.val>>, <<>>, <<>>),
                             v.rest)
               [] variant \in {"TextHankaku", "TextZenkaku"} ->
                    IF s.st # "ok" THEN EntryStep("error", NoTextEntry, input)
                    ELSE EntryStep("ok",
                             Entry(variant, "none", <<>>, <<>>, s.val), s.rest)
               [] OTHER -> EntryStep("error", NoTextEntry, input)

\* Writeable for Vec<T>::byte_size over Vals
RECURSIVE ValsByteSize(_)
ValsByteSize(vals) ==
    IF vals = <<>> THEN 0
    ELSE ValByteSize(Head(vals)) + ValsByteSize(Tail(vals))

\* the Vals of a variant written one after the other
RECURSIVE ValsWrite(_)
ValsWrite(vals) ==
    IF vals = <<>> THEN <<>>
    ELSE ValWrite(Head(vals)) \o ValsWrite(Tail(vals))

\* Writeable for Condition::byte_size and Ret::byte_size
CondByteSize(cond) ==
    IF cond.c = "Ret" THEN 1 + (1 + ValsByteSize(cond.vals))
    ELSE 1 + ValsByteSize(cond.vals)

\* Writeable for Vec<T>::byte_size over a Vec<Condition>
RECURSIVE ConditionsByteSize(_)
ConditionsByteSize(conds) ==
    IF conds = <<>> THEN 0
    ELSE CondByteSize(Head(conds)) + ConditionsByteSize(Tail(conds))

\* Writeable for FormattedTextCmd::byte_size
FormattedTextCmdByteSize(e) == 1 + ValsByteSize(e.vals)

\* Writeable for FormattedTextCmd::write
FormattedTextCmdWrite(e) ==
    <<WriteTag(FormattedTextCmdWriteArms, e.cmd)>> \o ValsWrite(e.vals)

\* Writeable for SceneFormattedTextEntry::byte_size
EntryByteSize(e) ==
    CASE e.t = "Command" -> 1 + FormattedTextCmdByteSize(e)
      [] e.t = "Unknown" -> 1
      [] e.t = "Condition" -> ConditionsByteSize(e.conds)
      [] e.t = "TextPointer" -> 1 + ValsByteSize(e.vals)
      [] OTHER -> 1 + StrByteSize(e.str)

\* Writeable for SceneFormattedTextEntry::write
EntryWrite(e) ==
    <<WriteTag(EntryWriteArms, e.t)>>
        \o (CASE e.t = "Command" -> FormattedTextCmdWrite(e)
              [] e.t = "Unknown" -> <<>>
              [] e.t = "Condition" -> ConditionsWrite(e.conds)
              [] e.t = "TextPointer" -> ValsWrite(e.vals)
              [] OTHER -> StrWrite(e.str))

\* Writeable for SceneFormattedText::byte_size
RECURSIVE FormattedTextByteSize(_)
FormattedTextByteSize(entries) ==
    IF entries = <<>> THEN 1
    ELSE EntryByteSize(Head(entries)) + FormattedTextByteSize(Tail(entries))

\* Writeable for SceneFormattedText::write
RECURSIVE FormattedTextWrite(_)
FormattedTextWrite(entries) ==
    IF entries = <<>> THEN <<0>>
    ELSE EntryWrite(Head(entries)) \o FormattedTextWrite(Tail(entries))

MaxText == 4

\* the bytes scene_text is handed: '@', Val bytes of one and two bytes,
\* a letter, the NUL
TextBytes == {64, 16, 21, 32, 65, 0}

TextInputs == SeqsUpTo(TextBytes, MaxText)

\* the SceneText values handed to write
TextValues ==
    {Pointer(v) : v \in [value : {0, 5, 16, 4096, 1048576}, kind : ValKinds]}
        \cup {Literal(s) : s \in {<<>>, <<65>>, <<65, 65393>>}}

MaxFmtItems == 5

MaxFmtEntries == 2

\* the pieces the inputs of scene_formatted_text are put together from: the
\* 0x00 sentinel, 0x28 and 0x29, a comparison, and one entry of every other
\* kind
FmtItems ==
    {<<0>>, <<40>>, <<41>>, <<54, 16, 17>>, <<255, 65, 0>>, <<253, 21>>,
     <<16, 2, 16, 33, 1>>, <<18>>}

\* the entries of the SceneFormattedText values handed to write
FmtEntries ==
    {Entry("Command", "Integer", <<[value |-> 5, kind |-> "Const"]>>,
           <<>>, <<>>),
     Entry("Command", "Unknown1", <<[value |-> 300, kind |-> "Var"]>>,
           <<>>, <<>>),
     Entry("Command", "Unknown2", <<>>, <<>>, <<>>),
     Entry("Unknown", "none", <<>>, <<>>, <<>>),
     Entry("Condition", "none", <<>>, <<Cond("DecDepth", <<>>, "none")>>, <<>>),
     Entry("Condition", "none", <<>>,
           <<Cond("IncDepth", <<>>, "none"), Cond("And", <<>>, "none"),
             Cond("DecDepth", <<>>, "none"), Cond("DecDepth", <<>>, "none")>>,
           <<>>),
     Entry("Condition", "none", <<>>,
           <<Cond("Ret", <<>>, "Choice"), Cond("DecDepth", <<>>, "none")>>,
           <<>>),
     Entry("TextPointer", "none", <<[value |-> 4096, kind |-> "Const"]>>,
           <<>>, <<>>),
     Entry("TextHankaku", "none", <<>>, <<>>, <<65393>>),
     Entry("TextZenkaku", "none", <<>>, <<>>, <<65, 66>>),
     Entry("TextZenkaku", "none", <<>>, <<>>, <<>>)}

FmtTexts == SeqsUpTo(FmtEntries, MaxFmtEntries)

TextStart ==
    /\ \/ txpc = "bytes" /\ txin \in TextInputs /\ txval = NoText
          /\ txentries = <<>>
       \/ txpc = "text" /\ txin = <<>> /\ txval \in TextValues
          /\ txentries = <<>>
       \/ txpc = "fbytes" /\ txin = <<>> /\ txval = NoText
          /\ txentries = <<>>
       \/ txpc = "ftext" /\ txin = <<>> /\ txval = NoText
          /\ txentries \in FmtTexts
    /\ txn = 0
    /\ txcond = <<>>
    /\ txrest = <<>>
    /\ txout = <<>>
    /\ txsize = 0
    /\ txback = NoText

TextFrame ==
    UNCHANGED <<valVars, lzVars, labVars, opVars, arVars, cdVars, scVars>>

fmtVars == <<txentries, txn, txcond>>

\* scene_text on the input bytes
ParseText ==
    /\ txpc = "bytes"
    /\ LET r == scene_text(txin)
       IN  /\ txpc' = IF r.st = "ok" THEN "parsed" ELSE r.st
           /\ txval' = r.val
           /\ txrest' = r.rest
    /\ UNCHANGED <<txin, txout, txsize, txback>>
    /\ UNCHANGED fmtVars
    /\ TextFrame

\* SceneText::write (and byte_size) of the parsed text, or of a given one
WriteText ==
    /\ \/ txpc = "parsed" /\ txpc' = "written"
       \/ txpc = "text" /\ txpc' = "emitted"
    /\ txout' = SceneTextWrite(txval)
    /\ txsize' = SceneTextByteSize(txval)
    /\ UNCHANGED <<txin, txval, txrest, txback>>
    /\ UNCHANGED fmtVars
    /\ TextFrame

\* scene_text on the bytes written for a given text
ReparseText ==
    /\ txpc = "emitted"
    /\ LET r == scene_text(txout)
       IN  /\ txpc' = IF r.st = "ok" THEN "reparsed" ELSE "re" \o r.st
           /\ txback' = r.val
           /\ txrest' = r.rest
    /\ UNCHANGED <<txin, txval, txout, txsize>>
    /\ UNCHANGED fmtVars
    /\ TextFrame

\* one more piece of the bytes handed to scene_formatted_text
FormattedBytes ==
    /\ txpc = "fbytes"
    /\ txn < MaxFmtItems
    /\ \E item \in FmtItems : txin' = txin \o item
    /\ txn' = txn + 1
    /\ UNCHANGED <<txpc, txval, txrest, txout, txsize, txback, txentries,
                   txcond>>
    /\ TextFrame

\* scene_formatted_text: entry, on the bytes built or on the bytes written
SceneFormattedText ==
    /\ \/ txpc = "fbytes" /\ txrest' = txin /\ UNCHANGED txin
       \/ txpc = "femitted" /\ txrest' = txout /\ txin' = txout
    /\ txpc' = "floop"
    /\ txentries' = <<>>
    /\ UNCHANGED <<txval, txout, txsize, txback, txn, txcond>>
    /\ TextFrame

\* many_till!(scene_formatted_text_entry, tag!("\0")): one pass. The tag
\* is tried first; where it does not match, an entry is parsed and pushed.
\* txcond keeps the bytes behind the 0x28 of the Condition entry just pushed.
FormattedEntry ==
    /\ txpc = "floop"
    /\ IF txrest = <<>>
       THEN /\ txpc' = "ferror"
            /\ UNCHANGED <<txrest, txentries, txcond>>
       ELSE IF Head(txrest) = 0
       THEN /\ txpc' = "fparsed"
            /\ txrest' = Tail(txrest)
            /\ UNCHANGED <<txentries, txcond>>
       ELSE LET r == scene_formatted_text_entry(txrest)
            IN  IF r.st = "ok"
                THEN /\ txentries' = Append(txentries, r.entry)
                     /\ txrest' = r.rest
                     /\ txcond' = IF r.entry.t = "Condition"
                                  THEN Tail(txrest) ELSE <<>>
                     /\ UNCHANGED txpc
                ELSE /\ txpc' = "f" \o r.st
                     /\ UNCHANGED <<txrest, txentries, txcond>>
    /\ UNCHANGED <<txin, txval, txout, txsize, txback, txn>>
    /\ TextFrame

\* SceneFormattedText::write (and byte_size) of a given text, or of the
\* parsed one
WriteFormatted ==
    /\ \/ txpc = "ftext" /\ txpc' = "femitted"
       \/ txpc = "fparsed" /\ txpc' = "fwritten"
    /\ txout' = FormattedTextWrite(txentries)
    /\ txsize' = FormattedTextByteSize(txentries)
    /\ UNCHANGED <<txin, txval, txrest, txback, txentries, txn, txcond>>
    /\ TextFrame

InitText ==
    /\ TextStart
    /\ IdleVal /\ IdleLz /\ IdleLab /\ IdleOp /\ IdleAr /\ IdleCond
    /\ IdleScene

NextText ==
    \/ ParseText
    \/ WriteText
    \/ ReparseText
    \/ FormattedBytes
    \/ SceneFormattedText
    \/ FormattedEntry
    \/ WriteFormatted

SpecText == InitText /\ [][NextText]_vars

(***************************************************************************)
(* scene_text: properties                                                  *)
(***************************************************************************)
\* C21: on input whose first byte is 0x40, scene_text consumes the 0x40 and
\* parses the Val from the bytes behind it, returning Pointer(v); writing the
\* parsed text gives the bytes consumed; and parsing the bytes written for
\* Pointer(v) gives Pointer(v) with nothing left over.
C21_PointerRoundTrip ==
    /\ (/\ txpc \in {"parsed", "written", "panic", "error"}
        /\ txin # <<>>
        /\ txin[1] = PointerTag
        /\ scene_value(Tail(txin)).st = "ok") =>
          /\ txpc \in {"parsed", "written"}
          /\ txval = Pointer(scene_value(Tail(txin)).val)
          /\ txrest = scene_value(Tail(txin)).rest
    /\ (txpc = "written" /\ txval.t = "Pointer") =>
          txout = SubSeq(txin, 1, Len(txin) - Len(txrest))
    /\ (/\ txpc \in {"reparsed", "repanic", "reerror"}
        /\ txval.t = "Pointer") =>
          /\ txpc = "reparsed"
          /\ txback = txval
          /\ txrest = <<>>

\* C25: for every SceneFormattedText, byte_size is the number of bytes write
\* emits (the entries plus the 0x00 terminator), for every kind of entry.
C25_FormattedTextSize ==
    txpc \in {"femitted", "fwritten"} => txsize = Len(txout)

\* the bytes of a Condition entry as the claim has them: from behind the
\* opening 0x28 (depth 1) to the 0x29 that brings the depth back to 0
ConditionEntryEnd(inp) == SceneConditionsFrom(inp, 1, <<>>)

\* C26: a Condition entry of a formatted text is parsed up to the 0x29 that
\* closes its own opening 0x28, whatever the nesting of 0x28/0x29 pairs
\* inside, and the text ends only at the 0x00 sentinel.
C26_ConditionEntryExtent ==
    /\ (/\ txpc \in {"floop", "fparsed", "ferror", "fpanic"}
        /\ txentries # <<>>
        /\ txentries[Len(txentries)].t = "Condition"
        /\ txpc = "floop") =>
          /\ ConditionEntryEnd(txcond).st = "ok"
          /\ txrest = ConditionEntryEnd(txcond).rest
    /\ txpc = "fparsed" =>
          /\ txin[Len(txin) - Len(txrest)] = 0
          /\ txin = FormattedTextWrite(txentries) \o txrest

(***************************************************************************)
(* parser.rs header / avg32_scene, write.rs Writeable for Header /         *)
(* AVG32Scene                                                              *)
(***************************************************************************)
\* the tag of the header, b"TPC32"
Tpc32 == <<84, 80, 67, 51, 50>>

\* count!(le_u8, 0x13), count!(le_u8, 0x30), count!(le_u8, 0x05)
Unk1Size == 19

Unk2Size == 48

Unk3Size == 5

\* a Header without menus: unk1, unk2, unk3 are bytes, labels are u32
Header(unk1, labels, unk2, counter_start, unk3) ==
    [unk1 |-> unk1, labels |-> labels, unk2 |-> unk2,
     counter_start |-> counter_start, unk3 |-> unk3]

NoHeader == Header(<<>>, <<>>, <<>>, 0, <<>>)

\* Writeable for Vec<u32>::write
RECURSIVE LabelsWrite(_)
LabelsWrite(labels) ==
    IF labels = <<>> THEN <<>>
    ELSE WriteU32(Head(labels)) \o LabelsWrite(Tail(labels))

\* Writeable for Header::write, menus.len() = 0
Avg32HeaderWrite(h) ==
    Tpc32 \o h.unk1 \o WriteU32(Len(h.labels)) \o WriteU32(h.counter_start)
        \o LabelsWrite(h.labels) \o h.unk2 \o WriteU32(0) \o h.unk3

\* count!(le_u32, n)
RECURSIVE CountU32(_, _)
CountU32(input, n) ==
    IF n = 0 THEN <<>>
    ELSE <<ReadU32(input)>> \o CountU32(Drop(input, 4), n - 1)

\* parser::header; a header with menus is outside the inputs
scene_header(input) ==
    LET fixed == Len(Tpc32) + Unk1Size + 4 + 4
        count == ReadU32(Drop(input, Len(Tpc32) + Unk1Size))
        start == ReadU32(Drop(input, Len(Tpc32) + Unk1Size + 4))
        need  == fixed + 4 * count + Unk2Size + 4 + Unk3Size
        body  == Drop(input, fixed)
        after == Drop(body, 4 * count)
    IN  IF Len(input) < fixed \/ SubSeq(input, 1, Len(Tpc32)) # Tpc32
        THEN [st |-> "error", val |-> NoHeader, rest |-> input]
        ELSE IF Len(input) < need \/ ReadU32(Drop(after, Unk2Size)) # 0
        THEN [st |-> "error", val |-> NoHeader, rest |-> input]
        ELSE [st |-> "ok",
              val |-> Header(SubSeq(input, Len(Tpc32) + 1,
                                    Len(Tpc32) + Unk1Size),
                             CountU32(body, count),
                             SubSeq(after, 1, Unk2Size),
                             start,
                             SubSeq(after, Unk2Size + 5,
                                    Unk2Size + 4 + Unk3Size)),
              rest |-> Drop(input, need)]

\* the arms of opcode that are value!(..): the opcodes of the scenes here
PlainOpcodes == {"WaitMouse", "Newline", "WaitMouseText"}

\* Writeable for Vec<Opcode>::write over opcodes without payload
RECURSIVE PlainOpcodesWrite(_)
PlainOpcodesWrite(opcodes) ==
    IF opcodes = <<>> THEN <<>>
    ELSE <<WriteTag(OpcodeWriteArms, Head(opcodes))>>
             \o PlainOpcodesWrite(Tail(opcodes))

\* Writeable for AVG32Scene::write
Avg32SceneWrite(scene) ==
    Avg32HeaderWrite(scene.header) \o PlainOpcodesWrite(scene.opcodes)
        \o <<0>>

\* Writeable for AVG32Scene::byte_size
Avg32SceneByteSize(scene) ==
    Len(Avg32HeaderWrite(scene.header)) + Len(scene.opcodes) + 1

\* many1!(opcode): opcodes are taken until opcode gives Err::Error; the
\* payload parsers of the other arms are outside the inputs
RECURSIVE Many1Opcode(_, _)
Many1Opcode(input, acc) ==
    IF input = <<>> THEN [st |-> "error", val |-> acc, rest |-> input]
    ELSE LET variant == SwitchArm(OpcodeArms, Head(input))
         IN  IF variant \in PlainOpcodes
             THEN Many1Opcode(Tail(input), Append(acc, variant))
             ELSE IF variant # "none"
             THEN [st |-> "payload", val |-> acc, rest |-> input]
             ELSE IF acc = <<>>
             THEN [st |-> "error", val |-> acc, rest |-> input]
             ELSE [st |-> "ok", val |-> acc, rest |-> input]

\* avg32_scene: header, many1!(opcode), tag!("\0"), eof!()
avg32_scene(input) ==
    LET h == scene_header(input)
        ops == Many1Opcode(h.rest, <<>>)
    IN  IF h.st # "ok" THEN [st |-> "error", val |-> NoScene]
        ELSE IF ops.st # "ok" THEN [st |-> "error", val |-> NoScene]
        ELSE IF ops.rest # <<0>> THEN [st |-> "error", val |-> NoScene]
        ELSE [st |-> "ok", val |-> [header |-> h.val, opcodes |-> ops.val]]

MaxSceneOps == 3

MaxSceneLabels == 1

\* the headers of the scenes
SceneHeaders ==
    {Header(Zeros(Unk1Size), labels, Zeros(Unk2Size), start,
            <<1, 0, 0, 0, 2>>) :
        labels \in SeqsUpTo({5, 300}, MaxSceneLabels), start \in {0, 3}}

SceneStart ==
    /\ scpc = "scene"
    /\ scscene \in {[header |-> h, opcodes |-> <<>>] : h \in SceneHeaders}
    /\ scbytes = <<>>
    /\ scsize = 0
    /\ scback = NoScene

SceneFrame ==
    UNCHANGED <<valVars, lzVars, labVars, opVars, arVars, cdVars, txVars>>

\* one more opcode of the scene
PushSceneOpcode ==
    /\ scpc = "scene"
    /\ Len(scscene.opcodes) < MaxSceneOps
    /\ \E o \in PlainOpcodes :
          scscene' = [scscene EXCEPT !.opcodes = Append(@, o)]
    /\ UNCHANGED <<scpc, scbytes, scsize, scback>>
    /\ SceneFrame

\* AVG32Scene::write (and byte_size)
WriteSceneBytes ==
    /\ scpc = "scene"
    /\ scpc' = "written"
    /\ scbytes' = Avg32SceneWrite(scscene)
    /\ scsize' = Avg32SceneByteSize(scscene)
    /\ UNCHANGED <<scscene, scback>>
    /\ SceneFrame

\* avg32_scene on the bytes written
ParseSceneBytes ==
    /\ scpc = "written"
    /\ LET r == avg32_scene(scbytes)
       IN  /\ scpc' = IF r.st = "ok" THEN "parsed" ELSE "parse_error"
           /\ scback' = r.val
    /\ UNCHANGED <<scscene, scbytes, scsize>>
    /\ SceneFrame

InitScene ==
    /\ SceneStart
    /\ IdleVal /\ IdleLz /\ IdleLab /\ IdleOp /\ IdleAr /\ IdleCond
    /\ IdleText

NextScene == PushSceneOpcode \/ WriteSceneBytes \/ ParseSceneBytes

SpecScene == InitScene /\ [][NextScene]_vars

(***************************************************************************)
(* avg32_scene: properties                                                 *)
(***************************************************************************)
\* C22: the bytes written for a scene are its header, its opcodes and then
\* exactly one 0x00; a scene without opcodes is written as its header and
\* that 0x00; parsing the bytes written gives the scene back, the scene
\* without opcodes included.
C22_SceneRoundTrip ==
    /\ scpc \in {"written", "parsed", "parse_error"} =>
          /\ scbytes = Avg32HeaderWrite(scscene.header)
                         \o PlainOpcodesWrite(scscene.opcodes) \o <<0>>
          /\ \A k \in 1..Len(scscene.opcodes) :
                scbytes[Len(scbytes) - k] # 0
          /\ scsize = Len(scbytes)
    /\ scpc \in {"parsed", "parse_error"} =>
          /\ scpc = "parsed"
          /\ scback = scscene

=============================================================================
